---- MODULE Spec2Model ----
(***************************************************************************)
(* A model of miniprogram/utils/storage.ts of baby-tracker: the event      *)
(* store with its cache-aside policy and change bus, the baby-profile      *)
(* registry, and the sharing protocol (invitations, join records, sync).   *)
(* Remote calls are suspension points: a call is issued by one action and  *)
(* completed (successfully or not) by another, so calls interleave as the  *)
(* single-threaded event loop lets them.                                   *)
(***************************************************************************)
EXTENDS Integers, Sequences, FiniteSets, TLC

(* ---- bounds of the model ---- *)
MaxOps == 2        \* mutating calls (addEvent/updateEvent/deleteEvent) per run
MaxListeners == 1  \* watchEvents registrations per launch
MaxCalls == 2      \* remote calls in flight at once

(* ---- values ---- *)
Absent == -1       \* an optional field that is not set (undefined)
Subjects == {"b1", "b2"}
Times == {1, 2}
\* the (startTs, endTs) a page queries with; 0 stands for an omitted bound
Ranges == {<<0, 0>>, <<2, 2>>}
NoRec == [_id |-> Absent, babyId |-> "", type |-> "", timestamp |-> 0,
          quantity |-> Absent, durationMinutes |-> Absent, notes |-> ""]

\* the records commitEvent builds: quantity only for feed/drink
EventInputs ==
  { [_id |-> Absent, babyId |-> b, type |-> ty, timestamp |-> t,
     quantity |-> (IF ty = "feed" THEN 120 ELSE Absent),
     durationMinutes |-> Absent, notes |-> ""] :
     b \in Subjects, ty \in {"feed"}, t \in Times }

(* ---- sequences ---- *)
RemoveAt(s, i) == SubSeq(s, 1, i - 1) \o SubSeq(s, i + 1, Len(s))
Range(s) == { s[i] : i \in DOMAIN s }
Unshift(list, x) == <<x>> \o list
IndexOf(list, id) ==
  IF \E i \in DOMAIN list : list[i]._id = id
  THEN CHOOSE i \in DOMAIN list : list[i]._id = id /\ \A j \in 1..(i - 1) : list[j]._id # id
  ELSE 0
IsSortedDesc(list) ==
  \A i \in 1..(Len(list) - 1) : list[i].timestamp >= list[i + 1].timestamp
\* an event compared with its ids left aside
SansId(e) == [e EXCEPT !._id = Absent]
CountWhere(list, P(_)) == Cardinality({ i \in DOMAIN list : P(list[i]) })

(* ---- state ---- *)
VARIABLES
  db,           \* dbInstance after initCloud: TRUE when the cloud database exists
  watchOK,      \* whether the database object offers watch
  cloudEvents,  \* the remote collection 'events': a set of documents
  cloudRefl,    \* per subject, the completed mutations the remote holds
  localEvents,  \* local storage, events_<babyId>: a list per subject
  localRefl,    \* per subject, the completed mutations the cache holds
  listeners,    \* the module's listener array
  watchers,     \* lids whose cloud watcher is open
  calls,        \* remote calls in flight, in issue order
  pushes,       \* live-change pushes on their way to a watcher
  got,          \* per registration, the callbacks it received
  done,         \* outcome of the call that completed last
  qres,         \* what the last listEvents call of a page returned
  started,      \* mutating calls invoked so far
  nlid          \* registrations made since launch

VARIABLES
  babiesRaw,    \* local storage, babies: the stored list
  current,      \* local storage, current_baby (empty when nothing is stored)
  listed        \* what the last listBabies call of a page returned

VARIABLES
  cloudBabies,  \* remote collection babies: document id -> document
  jobs,         \* remote calls of the registry in flight, with what continues them
  syncLog,      \* the step syncBabies has just taken: who was member before it, what it fetched
  invitations,  \* remote collection invitations
  joinRequests, \* remote collection join_requests
  now,          \* Date.now(), in milliseconds
  joinRes,      \* what the last confirmJoinFamily call came to
  joinReadAll,  \* whether join_requests is readable by all users (as the code's
                \* error message asks the administrator to set) or by the creator only
  link,         \* what the last linkSleepAndWake call decided
  upsertRes,    \* what the last upsertBaby call returned
  exitRes,      \* what the last exitFamily call returned
  agg,          \* the event lists a statistics page aggregates, and what came of them
  ledger,       \* the growth and milestone ledgers: remote collections, local caches, calls
  quick         \* local storage, quick_actions_<babyId>, and the last two calls on it

evVars == <<db, watchOK, cloudEvents, cloudRefl, localEvents, localRefl, listeners,
            watchers, calls, pushes, got, done, qres, started, nlid>>
regVars == <<babiesRaw, current, listed>>
pureVars == <<agg, ledger, quick>>
extVars == <<exitRes, pureVars>>
auxVars == <<joinReadAll, link, upsertRes, extVars>>
joinVars == <<invitations, joinRequests, now, joinRes, auxVars>>
shVars == <<cloudBabies, jobs, syncLog, joinVars>>
profVars == <<regVars, shVars>>
vars == <<evVars, regVars, shVars>>

NoDone == [n |-> 0, op |-> "", ok |-> TRUE, why |-> "", rec |-> NoRec, babyId |-> ""]
NoRes == [babyId |-> "", startTs |-> 0, endTs |-> 0, via |-> "", list |-> <<>>]
Lids == 1..MaxListeners
Muts == 1..MaxOps

(* ---- listEvents: the remote query and the local fallback ---- *)
filterByRangeExclusive(list, startTs, endTs) ==
  SelectSeq(list, LAMBDA e :
     ~((startTs # 0 /\ e.timestamp <= startTs) \/ (endTs # 0 /\ e.timestamp >= endTs)))

\* filterByRange: a bound that is 0 or omitted is falsy and does not restrict
filterByRange(list, startTs, endTs) ==
  SelectSeq(list, LAMBDA e :
     ~((startTs # 0 /\ e.timestamp < startTs) \/ (endTs # 0 /\ e.timestamp > endTs)))

\* the documents where({babyId, timestamp: {$gte, $lte}}) matches
RemoteMatch(babyId, startTs, endTs) ==
  { e \in cloudEvents :
      /\ e.babyId = babyId
      /\ (startTs # 0 => e.timestamp >= startTs)
      /\ (endTs # 0 => e.timestamp <= endTs) }

\* orderBy('timestamp','desc'): every order of a set of documents that is
\* descending in timestamp (the order among equal timestamps is the server's)
DescOrders(S) ==
  { s \in [1..Cardinality(S) -> S] :
      /\ \A i, j \in DOMAIN s : i # j => s[i] # s[j]
      /\ IsSortedDesc(s) }

LocalQuery(babyId, startTs, endTs) == filterByRange(localEvents[babyId], startTs, endTs)

(* ---- the change bus ---- *)
\* one invocation of a callback: by the initial load, the bus or a push
Entry(src, m, babyId, list, refl) ==
  [src |-> src, mut |-> m, babyId |-> babyId, snap |-> list, refl |-> refl]
NoEntry == Entry("", 0, "", <<>>, {})
NoneGot == [sub |-> "", last |-> NoEntry,
            bus |-> [m \in Muts |-> 0], push |-> [m \in Muts |-> 0]]

\* what a registration has received once its callback ran with e: the last
\* invocation, and per mutation how often the bus and the watcher called it
Called(g, e) ==
  [sub |-> g.sub, last |-> e,
   bus |-> IF e.src = "bus" THEN [g.bus EXCEPT ![e.mut] = @ + 1] ELSE g.bus,
   push |-> IF e.src = "push" THEN [g.push EXCEPT ![e.mut] = @ + 1] ELSE g.push]

FanoutAll(g, ls, babyId, e) ==
  [l \in Lids |->
     IF \E i \in DOMAIN ls : ls[i].lid = l THEN Called(g[l], e) ELSE g[l]]

\* listeners.forEach(l => l.babyId === babyId && l.callback(list))
Fanout(g, ls, babyId, e) ==
  [l \in DOMAIN g |->
     IF \E i \in DOMAIN ls : ls[i].lid = l /\ ls[i].babyId = babyId
     THEN Called(g[l], e) ELSE g[l]]

Query(babyId, startTs, endTs, cont, lid, m) ==
  [op |-> "query", rec |-> NoRec, babyId |-> babyId, id |-> Absent,
   startTs |-> startTs, endTs |-> endTs, cont |-> cont, lid |-> lid, mut |-> m,
   served |-> FALSE, data |-> <<>>, refl |-> {}]

Mutation(op, rec, babyId, id) ==
  [op |-> op, rec |-> rec, babyId |-> babyId, id |-> id,
   startTs |-> 0, endTs |-> 0, cont |-> "", lid |-> 0, mut |-> 0,
   served |-> FALSE, data |-> <<>>, refl |-> {}]

PushesAfterNone(babyId, m, docs, refl) == {}

\* the pushes the remote sends to the open watchers of a subject after a change
PushesAfter(babyId, m, docs, refl) ==
  { [lid |-> l, mut |-> m, babyId |-> babyId, docs |-> d, refl |-> refl] :
      l \in { w \in watchers : \E i \in DOMAIN listeners :
                 listeners[i].lid = w /\ listeners[i].babyId = babyId },
      d \in {docs} }

InitEvents ==
  /\ db \in BOOLEAN
  /\ watchOK \in BOOLEAN
  /\ cloudEvents = {}
  /\ cloudRefl = [b \in Subjects |-> {}]
  /\ localEvents = [b \in Subjects |-> <<>>]
  /\ localRefl = [b \in Subjects |-> {}]
  /\ listeners = <<>>
  /\ watchers = {}
  /\ calls = <<>>
  /\ pushes = {}
  /\ got = [l \in Lids |-> NoneGot]
  /\ done = NoDone
  /\ qres = NoRes
  /\ started = 0
  /\ nlid = 0

(* ---- the baby-profile registry ---- *)
\* ids are strings of characters, so that trim() is modelled by what it does
Trimmed(id) ==
  LET keep == { i \in DOMAIN id : id[i] # " " }
  IN IF keep = {} THEN <<>>
     ELSE LET lo == CHOOSE i \in keep : \A j \in keep : i <= j
              hi == CHOOSE i \in keep : \A j \in keep : i >= j
          IN SubSeq(id, lo, hi)

DefaultName == "unnamed"   \* '未命名宝宝'
Undefined == "undefined"   \* a field the stored object does not have

\* the entry listBabies pushes for a stored entry b with trimmed id
Listed(b, id) ==
  [id |-> id,
   name |-> IF b.name \in {Undefined, ""} THEN DefaultName ELSE b.name,
   avatarUrl |-> IF b.avatarUrl = Undefined THEN "" ELSE b.avatarUrl,
   gender |-> b.gender,
   birthday |-> b.birthday,
   role |-> IF b.role \in {Undefined, ""} THEN "owner" ELSE b.role,
   openid |-> b.openid,
   creatorInfo |-> b.creatorInfo]

RECURSIVE ListFrom(_, _, _)
ListFrom(raw, i, list) ==
  IF i > Len(raw) THEN list
  ELSE LET id == Trimmed(raw[i].id)
       IN IF id = <<>> \/ \E k \in DOMAIN list : list[k].id = id
          THEN ListFrom(raw, i + 1, list)
          ELSE ListFrom(raw, i + 1, Append(list, Listed(raw[i], id)))

RECURSIVE ListFromKeepAll(_, _, _)
ListFromKeepAll(raw, i, list) ==
  IF i > Len(raw) THEN list
  ELSE LET id == Trimmed(raw[i].id)
       IN IF id = <<>>
          THEN ListFromKeepAll(raw, i + 1, list)
          ELSE ListFromKeepAll(raw, i + 1, Append(list, Listed(raw[i], id)))
listBabiesNoDedup(raw) == ListFromKeepAll(raw, 1, <<>>)

\* listBabies(): drop empty and repeated ids, fill in the defaults
listBabies(raw) == ListFrom(raw, 1, <<>>)

Baby(id, name, role) ==
  [id |-> id, name |-> name, avatarUrl |-> Undefined, gender |-> Undefined,
   birthday |-> Undefined, role |-> role, openid |-> Undefined, creatorInfo |-> Undefined]

\* what legacy storage may hold: padded, empty and repeated ids (an entry
\* without id reads as the empty id)
RawIds == {<<>>, <<" ">>, <<"a">>, <<" ", "a">>, <<"a", " ">>, <<"b">>}
RawEntries ==
  { Baby(id, n, r) : id \in RawIds, n \in {Undefined, "Ann", "Bo"},
                     r \in {Undefined, "member"} }
MaxRaw == 2   \* entries of a stored list
RawLists == UNION { [1..n -> RawEntries] : n \in 0..MaxRaw }
NotListed == <<Baby(<<>>, Undefined, Undefined)>>

NoBaby == Baby(<<>>, Undefined, Undefined)
NoDoc == [data |-> NoBaby, isDeleted |-> FALSE]
NoSync == [step |-> "none", fetched |-> {}, members |-> {}, owners |-> {}, id |-> <<>>,
           failed |-> "", pending |-> {}]
BabyIds == {<<"a">>, <<"b">>}
PaddedId == <<" ", "a">>    \* an id a caller did not trim
CloudIds == BabyIds \cup {PaddedId}
Names == {"Ann"}            \* what this device names a baby
OtherNames == {"Bo", "Cy"}  \* what another user names one
DefaultId == <<"d", "e", "f", "a", "u", "l", "t">>
MaxJobs == 1   \* registry calls a page has in flight
NoInv == [code |-> "", babyId |-> <<>>, expiresAt |-> 0, status |-> "", createdAt |-> 0]
NoJoinRes == [code |-> "", at |-> 0, why |-> "", success |-> FALSE, raised |-> FALSE,
              checked |-> FALSE, seen |-> {}, babyId |-> <<>>]

NoLink == [n |-> 0, wake |-> NoRec, sleep |-> NoRec, via |-> "", diff |-> 0, updates |-> FALSE]
NoUpsertRes == [baby |-> NoBaby, remote |-> "", returned |-> FALSE]
\* the value upsertRes keeps in the specifications that do not look at it
Untraced == [baby |-> NoBaby, remote |-> "untraced", returned |-> FALSE]

NoExit == [n |-> 0, babyId |-> <<>>, success |-> FALSE, remote |-> ""]

NoAgg == [a |-> <<>>, b |-> <<>>, ofA |-> <<>>, ofB |-> <<>>, ofBoth |-> <<>>]

Kinds == {"growth", "milestones"}
NoLedgerRes == [n |-> 0, op |-> "", kind |-> "", babyId |-> "", remote |-> "", raised |-> "",
                list |-> <<>>]
NoLedger == [cloud |-> [k \in Kinds |-> {}],
             cache |-> [k \in Kinds |-> [b \in Subjects |-> <<>>]],
             added |-> [k \in Kinds |-> [b \in Subjects |-> {}]],
             calls |-> <<>>, res |-> NoLedgerRes, nid |-> 0]

NoQuickCall == [op |-> "", babyId |-> "", list |-> <<>>, defaults |-> FALSE]
\* nothing stored under any key quick_actions_<babyId>
NoQuick == [stored |-> [b \in Subjects |-> [has |-> FALSE, list |-> <<>>]],
            ever |-> [b \in Subjects |-> FALSE],
            prev |-> NoQuickCall, res |-> NoQuickCall, n |-> 0]

\* no call of the later sections made yet
InitExt ==
  /\ exitRes = NoExit
  /\ agg = NoAgg
  /\ ledger = NoLedger
  /\ quick = NoQuick

\* join_requests readable by its creator only; no call made yet
InitAux ==
  /\ InitExt
  /\ joinReadAll = FALSE
  /\ link = NoLink
  /\ upsertRes = Untraced

\* nothing stored, nothing remote, no call made
InitProfile ==
  /\ babiesRaw = <<>>
  /\ current = <<>>
  /\ listed = NotListed
  /\ cloudBabies = [id \in CloudIds |-> NoDoc]
  /\ jobs = <<>>
  /\ syncLog = NoSync
  /\ invitations = {}
  /\ joinRequests = {}
  /\ now = 0
  /\ joinRes = NoJoinRes
  /\ joinReadAll = FALSE
  /\ link = NoLink
  /\ upsertRes = Untraced
  /\ exitRes = NoExit

InitRegistry ==
  /\ babiesRaw = <<>>
  /\ current = <<>>
  /\ listed = NotListed
  /\ cloudBabies = [id \in CloudIds |-> NoDoc]
  /\ jobs = <<>>
  /\ syncLog = NoSync
  /\ invitations = {}
  /\ joinRequests = {}
  /\ now = 0
  /\ joinRes = NoJoinRes
  /\ InitAux

InitAll == InitEvents /\ InitRegistry
InitProfiles == InitAll /\ ~watchOK

\* a page calls listBabies()
ListBabies ==
  /\ listed' = listBabies(babiesRaw)
  /\ UNCHANGED <<evVars, shVars, babiesRaw, current>>

\* a launch that finds a list an earlier version stored
InitList ==
  /\ InitEvents
  /\ babiesRaw \in RawLists
  /\ current = <<>>
  /\ listed = NotListed
  /\ cloudBabies = [id \in CloudIds |-> NoDoc]
  /\ jobs = <<>>
  /\ syncLog = NoSync
  /\ invitations = {}
  /\ joinRequests = {}
  /\ now = 0
  /\ joinRes = NoJoinRes
  /\ InitAux

SpecList == InitList /\ [][ListBabies]_vars

(* ---- the registry's writes ---- *)
FindBaby(list, id) ==
  IF \E i \in DOMAIN list : list[i].id = id
  THEN CHOOSE i \in DOMAIN list : list[i].id = id /\ \A j \in 1..(i - 1) : list[j].id # id
  ELSE 0

Over(old, new) == IF new = Undefined THEN old ELSE new

SpreadNothingKept(old, baby) == baby

\* { ...old, ...baby }: what baby carries replaces what old has
Spread(old, baby) ==
  [id |-> baby.id,
   name |-> Over(old.name, baby.name),
   avatarUrl |-> Over(old.avatarUrl, baby.avatarUrl),
   gender |-> Over(old.gender, baby.gender),
   birthday |-> Over(old.birthday, baby.birthday),
   role |-> Over(old.role, baby.role),
   openid |-> Over(old.openid, baby.openid),
   creatorInfo |-> Over(old.creatorInfo, baby.creatorInfo)]

Truthy(x) == x \notin {Undefined, ""}

updateLocalBabyRemoteWins(raw, baby) ==
  LET list == listBabies(raw)
      idx == FindBaby(list, baby.id)
  IN IF idx > 0
     THEN [list EXCEPT ![idx] =
             [Spread(@, baby) EXCEPT !.role = IF Truthy(baby.role) THEN baby.role ELSE "owner"]]
     ELSE Append(list, [baby EXCEPT !.role = IF Truthy(baby.role) THEN baby.role ELSE "member"])

\* updateLocalBaby(baby): the list it saves
updateLocalBaby(raw, baby) ==
  LET list == listBabies(raw)
      idx == FindBaby(list, baby.id)
  IN IF idx > 0
     THEN LET existingRole == IF Truthy(list[idx].role) THEN list[idx].role ELSE "owner"
          IN [list EXCEPT ![idx] =
                [Spread(@, baby) EXCEPT !.role = IF Truthy(baby.role) THEN baby.role
                                                 ELSE existingRole]]
     ELSE Append(list, [baby EXCEPT !.role = IF Truthy(baby.role) THEN baby.role ELSE "member"])

\* getCurrentBabyId(): <<what it returns, what is stored afterwards>>
getCurrentBabyId(raw, cur) ==
  IF cur # <<>> THEN <<cur, cur>>
  ELSE LET babies == listBabies(raw)
       IN IF Len(babies) > 0 THEN <<babies[1].id, babies[1].id>> ELSE <<(<<>>), (<<>>)>>

\* deleteBabyById(id): <<the list it saves, the current pointer afterwards>>
deleteBabyById(raw, cur, id) ==
  LET filtered == SelectSeq(listBabies(raw), LAMBDA b : b.id # id)
      got1 == getCurrentBabyId(filtered, cur)
  IN IF got1[1] = id
     THEN <<filtered, IF Len(filtered) > 0 THEN filtered[1].id ELSE DefaultId>>
     ELSE <<filtered, got1[2]>>

Job(op, id, baby, snap) ==
  [op |-> op, id |-> id, baby |-> baby, snap |-> snap, inv |-> NoInv, at |-> 0, seen |-> {}]

\* const { role, ...cloudData } = baby
CloudData(baby) == [baby EXCEPT !.role = Undefined]

BabyInputs == { Baby(id, n, Undefined) : id \in BabyIds, n \in Names }
OtherInputs == { Baby(id, n, Undefined) : id \in BabyIds, n \in OtherNames }

ReturnsTrue(baby, remote, returned) ==
  IF upsertRes = Untraced THEN Untraced
  ELSE [baby |-> baby, remote |-> remote, returned |-> TRUE]

\* where upsertBaby(baby) stands with its remote set ("pending" until the set
\* settles) and what it returns
Returns(baby, remote, returned) ==
  IF upsertRes = Untraced THEN Untraced
  ELSE [baby |-> baby, remote |-> remote, returned |-> returned]

\* what upsertBaby is called with: every field given, the name alone, an
\* empty name, and an id with a leading space
UpsertInputs ==
  { [Baby(id, "Ann", Undefined) EXCEPT !.avatarUrl = "pic", !.gender = "girl",
                                       !.birthday = "2024-01-01", !.creatorInfo = "dad"] :
      id \in BabyIds }
  \cup { Baby(id, n, Undefined) : id \in BabyIds, n \in {"Bea", ""} }
  \cup { Baby(PaddedId, "Ann", Undefined) }

\* upsertBaby(baby): the local update, then the remote set when there is a database
UpsertBaby(baby) ==
  /\ Len(jobs) < MaxJobs
  /\ LET exists == FindBaby(listBabies(babiesRaw), baby.id) > 0
         b == IF exists THEN baby ELSE [baby EXCEPT !.role = "owner"]
     IN /\ babiesRaw' = updateLocalBaby(babiesRaw, b)
        /\ jobs' = IF db THEN Append(jobs, Job("set", baby.id, CloudData(b), <<>>)) ELSE jobs
  /\ upsertRes' = IF db THEN Returns(CloudData(baby), "pending", FALSE)
                  ELSE Returns(CloudData(baby), "unavailable", FALSE)
  /\ UNCHANGED <<evVars, invitations, joinRequests, now, joinRes, joinReadAll, link, extVars,
                 current, listed, cloudBabies>>
  /\ syncLog' = NoSync

\* the remote set succeeded: the document is overwritten and not deleted
UpsertBabyThen(i) ==
  /\ jobs[i].op = "set"
  /\ LET old == cloudBabies[jobs[i].id]
         owner == IF old = NoDoc THEN "me" ELSE old.data.openid
     IN cloudBabies' = [cloudBabies EXCEPT ![jobs[i].id] =
                          [data |-> [jobs[i].baby EXCEPT !.openid = owner], isDeleted |-> FALSE]]
  /\ jobs' = RemoveAt(jobs, i)
  /\ upsertRes' = Returns(jobs[i].baby, "set", TRUE)
  /\ UNCHANGED <<evVars, invitations, joinRequests, now, joinRes, joinReadAll, link, extVars, regVars>>
  /\ syncLog' = NoSync

\* the remote set failed: upsertBaby returns false, the local update stays
UpsertBabyCatch(i) ==
  /\ jobs[i].op = "set"
  /\ jobs' = RemoveAt(jobs, i)
  /\ upsertRes' = Returns(jobs[i].baby, "failed", FALSE)
  /\ UNCHANGED <<evVars, invitations, joinRequests, now, joinRes, joinReadAll, link, extVars, regVars,
                 cloudBabies>>
  /\ syncLog' = NoSync

\* the profile page removes a baby from the list
DeleteBabyById(id) ==
  /\ FindBaby(listBabies(babiesRaw), id) > 0
  /\ LET r == deleteBabyById(babiesRaw, current, id)
     IN babiesRaw' = r[1] /\ current' = r[2]
  /\ UNCHANGED <<evVars, joinVars, listed, cloudBabies, jobs>>
  /\ syncLog' = NoSync

\* joinFamily(shareCode) with a database: the document is asked for
JoinFamily(code) ==
  /\ db
  /\ Len(jobs) < MaxJobs
  /\ jobs' = Append(jobs, Job("join", code, NoBaby, <<>>))
  /\ UNCHANGED <<evVars, joinVars, regVars, cloudBabies>>
  /\ syncLog' = NoSync

\* the document arrived: it is saved as member and made current
JoinFamilyThen(i) ==
  /\ jobs[i].op = "join"
  /\ cloudBabies[jobs[i].id] # NoDoc
  /\ LET baby == cloudBabies[jobs[i].id].data
     IN /\ babiesRaw' = updateLocalBaby(babiesRaw, [baby EXCEPT !.role = "member"])
        /\ current' = baby.id
  /\ jobs' = RemoveAt(jobs, i)
  /\ UNCHANGED <<evVars, joinVars, listed, cloudBabies>>
  /\ syncLog' = NoSync

\* the get failed (no such document, or the network): joinFamily returns false
JoinFamilyCatch(i) ==
  /\ jobs[i].op = "join"
  /\ jobs' = RemoveAt(jobs, i)
  /\ UNCHANGED <<evVars, joinVars, regVars, cloudBabies>>
  /\ syncLog' = NoSync

\* the registry as the profile page edits it, with what upsertBaby returns
InitUpsert ==
  /\ InitEvents
  /\ ~watchOK
  /\ babiesRaw = <<>>
  /\ current = <<>>
  /\ listed = NotListed
  /\ cloudBabies = [id \in CloudIds |-> NoDoc]
  /\ jobs = <<>>
  /\ syncLog = NoSync
  /\ invitations = {}
  /\ joinRequests = {}
  /\ now = 0
  /\ joinRes = NoJoinRes
  /\ joinReadAll = FALSE
  /\ link = NoLink
  /\ upsertRes = NoUpsertRes
  /\ InitExt

NextUpsert ==
  \/ \E baby \in UpsertInputs : UpsertBaby(baby)
  \/ \E i \in DOMAIN jobs : UpsertBabyThen(i)
  \/ \E i \in DOMAIN jobs : UpsertBabyCatch(i)
  \/ \E id \in BabyIds : DeleteBabyById(id)

SpecUpsert == InitUpsert /\ [][NextUpsert]_vars

(* ---- syncBabies ---- *)
\* the orders in which a query can return a set of documents
Orders(S) ==
  { q \in [1..Cardinality(S) -> S] : \A i, j \in DOMAIN q : i # j => q[i] # q[j] }

\* cloudMyBabies.forEach(b => { if (b.isDeleted) return; updateLocalBaby({ ...b, role: 'owner' }) })
RECURSIVE UpdateOwned(_, _)
UpdateOwned(raw, docs) ==
  IF docs = <<>> THEN raw
  ELSE UpdateOwned(IF Head(docs).isDeleted THEN raw
                   ELSE updateLocalBaby(raw, [Head(docs).data EXCEPT !.role = "owner"]),
                   Tail(docs))

DeleteGoneNever(st, owners, docs) == st

\* localOwners.forEach(local => { if (!cloudBaby || cloudBaby.isDeleted) deleteBabyById(local.id) })
RECURSIVE DeleteGone(_, _, _)
DeleteGone(st, owners, docs) ==
  IF owners = <<>> THEN st
  ELSE LET id == Head(owners).id
           kept == \E k \in DOMAIN docs : docs[k].data.id = id /\ ~docs[k].isDeleted
       IN DeleteGone(IF kept THEN st ELSE deleteBabyById(st[1], st[2], id), Tail(owners), docs)

RoleOf(raw, id) ==
  LET list == listBabies(raw)
  IN IF FindBaby(list, id) > 0 THEN list[FindBaby(list, id)].role ELSE "none"

MemberIds(raw) == { id \in BabyIds : RoleOf(raw, id) = "member" }

MemberJobsNone(raw) == <<>>

\* members.map(async b => db.collection('babies').doc(b.id).get() ...)
MemberJobs(raw) ==
  LET members == SelectSeq(listBabies(raw), LAMBDA b : b.role = "member")
  IN [k \in DOMAIN members |-> Job("syncMember", members[k].id, NoBaby, <<>>)]

\* syncBabies() with a database: the babies the caller created are asked for
SyncBabies ==
  /\ db
  /\ Len(jobs) < MaxJobs
  /\ jobs' = Append(jobs, Job("syncOwned", <<>>, NoBaby, listBabies(babiesRaw)))
  /\ UNCHANGED <<evVars, joinVars, regVars, cloudBabies>>
  /\ syncLog' = NoSync

\* the owned babies arrived: they are written as owner, local owners the
\* remote no longer has are removed, and every member is asked for
SyncOwnedThen(i) ==
  /\ jobs[i].op = "syncOwned"
  /\ \E docs \in Orders({ cloudBabies[id] : id \in { x \in BabyIds :
                              cloudBabies[x] # NoDoc /\ cloudBabies[x].data.openid = "me" } }) :
       LET updated == UpdateOwned(babiesRaw, docs)
           localOwners == SelectSeq(jobs[i].snap, LAMBDA b : b.role = "owner")
           st == DeleteGone(<<updated, current>>, localOwners, docs)
       IN /\ babiesRaw' = st[1]
          /\ current' = st[2]
          /\ jobs' = RemoveAt(jobs, i) \o MemberJobs(st[1])
          /\ syncLog' = [step |-> "owned",
                         fetched |-> { docs[k].data.id : k \in { n \in DOMAIN docs : ~docs[n].isDeleted } },
                         members |-> MemberIds(babiesRaw),
                         owners |-> { localOwners[k].id : k \in DOMAIN localOwners },
                         id |-> <<>>, failed |-> "", pending |-> {}]
  /\ UNCHANGED <<evVars, joinVars, listed, cloudBabies>>

\* the query for the owned babies failed: only the members are asked for
SyncOwnedCatch(i) ==
  /\ jobs[i].op = "syncOwned"
  /\ jobs' = RemoveAt(jobs, i) \o MemberJobs(babiesRaw)
  /\ UNCHANGED <<evVars, joinVars, regVars, cloudBabies>>
  /\ syncLog' = [NoSync EXCEPT !.step = "ownedFailed", !.failed = "owned",
                                !.pending = MemberIds(babiesRaw)]

NotFoundKeeps(raw, cur, id) == <<raw, cur>>

\* deleteBabyById(b.id) of the member pass, on a deleted or missing document
MemberGone(raw, cur, id) == deleteBabyById(raw, cur, id)

\* a member's document arrived: deleted documents are removed locally, the
\* others are merged into the list
SyncMemberThen(i) ==
  /\ jobs[i].op = "syncMember"
  /\ cloudBabies[jobs[i].id] # NoDoc
  /\ LET doc == cloudBabies[jobs[i].id]
         st == IF doc.isDeleted THEN MemberGone(babiesRaw, current, jobs[i].id)
               ELSE <<updateLocalBaby(babiesRaw, doc.data), current>>
     IN /\ babiesRaw' = st[1]
        /\ current' = st[2]
        /\ syncLog' = [step |-> "member", fetched |-> {jobs[i].id},
                       members |-> MemberIds(babiesRaw), owners |-> {}, id |-> jobs[i].id,
                       failed |-> syncLog.failed, pending |-> {}]
  /\ jobs' = RemoveAt(jobs, i)
  /\ UNCHANGED <<evVars, joinVars, listed, cloudBabies>>

\* the get says the document does not exist: the baby is removed locally
SyncMemberNotFound(i) ==
  /\ jobs[i].op = "syncMember"
  /\ cloudBabies[jobs[i].id] = NoDoc
  /\ LET st == MemberGone(babiesRaw, current, jobs[i].id)
     IN /\ babiesRaw' = st[1]
        /\ current' = st[2]
        /\ syncLog' = [step |-> "member", fetched |-> {}, members |-> MemberIds(babiesRaw),
                       owners |-> {}, id |-> jobs[i].id,
                       failed |-> syncLog.failed, pending |-> {}]
  /\ jobs' = RemoveAt(jobs, i)
  /\ UNCHANGED <<evVars, joinVars, listed, cloudBabies>>

\* the get failed for another reason: only a warning
SyncMemberCatch(i) ==
  /\ jobs[i].op = "syncMember"
  /\ jobs' = RemoveAt(jobs, i)
  /\ UNCHANGED <<evVars, joinVars, regVars, cloudBabies>>
  /\ syncLog' = [NoSync EXCEPT !.step = "memberFailed", !.failed = "member", !.id = jobs[i].id,
                                !.pending = { jobs[j].id : j \in { n \in DOMAIN jobs \ {i} :
                                                                  jobs[n].op = "syncMember" } }]

\* the get failed with errCode -1 and a message that does not say "not
\* found": the catch takes the code for a missing document and removes the baby
SyncMemberCatchCode(i) ==
  /\ jobs[i].op = "syncMember"
  /\ LET st == deleteBabyById(babiesRaw, current, jobs[i].id)
     IN /\ babiesRaw' = st[1]
        /\ current' = st[2]
  /\ jobs' = RemoveAt(jobs, i)
  /\ UNCHANGED <<evVars, joinVars, listed, cloudBabies>>
  /\ syncLog' = [NoSync EXCEPT !.step = "memberFailed", !.failed = "member", !.id = jobs[i].id,
                                !.pending = { jobs[j].id : j \in { n \in DOMAIN jobs \ {i} :
                                                                  jobs[n].op = "syncMember" } }]

(* ---- the other family members, seen from this device ---- *)
\* another user creates or edits a baby of theirs
OtherUpsertBaby(baby) ==
  /\ cloudBabies[baby.id] = NoDoc \/ cloudBabies[baby.id].data.openid = "other"
  /\ cloudBabies' = [cloudBabies EXCEPT ![baby.id] =
                       [data |-> [baby EXCEPT !.openid = "other"], isDeleted |-> FALSE]]
  /\ cloudBabies' # cloudBabies
  /\ UNCHANGED <<evVars, joinVars, regVars, jobs>>
  /\ syncLog' = NoSync

\* another user soft-deletes a baby of theirs
OtherSoftDeleteBaby(id) ==
  /\ cloudBabies[id] # NoDoc
  /\ cloudBabies[id].data.openid = "other"
  /\ ~cloudBabies[id].isDeleted
  /\ cloudBabies' = [cloudBabies EXCEPT ![id].isDeleted = TRUE]
  /\ UNCHANGED <<evVars, joinVars, regVars, jobs>>
  /\ syncLog' = NoSync

\* a baby's document is gone from the remote collection (removed in the cloud
\* console): what syncBabies meets as 'document not found'
RemoteBabyRemoved(id) ==
  /\ cloudBabies[id] # NoDoc
  /\ cloudBabies' = [cloudBabies EXCEPT ![id] = NoDoc]
  /\ syncLog' = NoSync
  /\ UNCHANGED <<evVars, joinVars, regVars, jobs>>

NextSync ==
  \/ \E baby \in BabyInputs : UpsertBaby(baby)
  \/ \E i \in DOMAIN jobs : UpsertBabyThen(i)
  \/ \E i \in DOMAIN jobs : UpsertBabyCatch(i)
  \/ \E id \in BabyIds : DeleteBabyById(id)
  \/ \E code \in BabyIds : JoinFamily(code)
  \/ \E i \in DOMAIN jobs : JoinFamilyThen(i)
  \/ \E i \in DOMAIN jobs : JoinFamilyCatch(i)
  \/ SyncBabies
  \/ \E i \in DOMAIN jobs : SyncOwnedThen(i)
  \/ \E i \in DOMAIN jobs : SyncOwnedCatch(i)
  \/ \E i \in DOMAIN jobs : SyncMemberThen(i)
  \/ \E i \in DOMAIN jobs : SyncMemberNotFound(i)
  \/ \E i \in DOMAIN jobs : SyncMemberCatch(i)
  \/ \E baby \in OtherInputs : OtherUpsertBaby(baby)
  \/ \E id \in BabyIds : OtherSoftDeleteBaby(id)
  \/ \E id \in BabyIds : RemoteBabyRemoved(id)

SpecSync == InitProfiles /\ [][NextSync]_vars

\* the caller renames a baby of theirs on another device
OwnerEditsElsewhere(id) ==
  /\ cloudBabies[id] # NoDoc
  /\ cloudBabies[id].data.openid = "me"
  /\ cloudBabies[id].data.name # "Abe"
  /\ cloudBabies' = [cloudBabies EXCEPT ![id].data.name = "Abe"]
  /\ UNCHANGED <<evVars, joinVars, regVars, jobs>>
  /\ syncLog' = NoSync

\* syncBabies among the calls and the remote changes that set it its cases
NextReconcile ==
  \/ \E baby \in BabyInputs : UpsertBaby(baby)
  \/ \E i \in DOMAIN jobs : UpsertBabyThen(i)
  \/ \E i \in DOMAIN jobs : UpsertBabyCatch(i)
  \/ \E code \in BabyIds : JoinFamily(code)
  \/ \E i \in DOMAIN jobs : JoinFamilyThen(i)
  \/ \E i \in DOMAIN jobs : JoinFamilyCatch(i)
  \/ SyncBabies
  \/ \E i \in DOMAIN jobs : SyncOwnedThen(i)
  \/ \E i \in DOMAIN jobs : SyncOwnedCatch(i)
  \/ \E i \in DOMAIN jobs : SyncMemberThen(i)
  \/ \E i \in DOMAIN jobs : SyncMemberNotFound(i)
  \/ \E i \in DOMAIN jobs : SyncMemberCatch(i)
  \/ \E i \in DOMAIN jobs : SyncMemberCatchCode(i)
  \/ \E baby \in OtherInputs : OtherUpsertBaby(baby)
  \/ \E id \in BabyIds : OtherSoftDeleteBaby(id)
  \/ \E id \in BabyIds : RemoteBabyRemoved(id)
  \/ \E id \in BabyIds : OwnerEditsElsewhere(id)

SpecReconcile == InitProfiles /\ [][NextReconcile]_vars

(* ---- invitations ---- *)
InviteTTL == 1800000   \* 30 * 60 * 1000
Codes == {"111111", "222222"}
MaxInvites == 2   \* invitations issued
\* the instants the clock is looked at: around the issue and around the expiry
Instants == {0, InviteTTL - 1, InviteTTL, InviteTTL + 1}

\* the invitation createInvitation(babyId) adds when the clock shows t
Invitation(code, babyId, t) ==
  [code |-> code, babyId |-> babyId, expiresAt |-> t + InviteTTL, status |-> "active",
   createdAt |-> t]

MatchingOrOnExpiry(invs, code, t) ==
  { inv \in invs : inv.code = code /\ inv.status = "active" /\ inv.expiresAt >= t }

\* where({ code, status: 'active', expiresAt: db.command.gt(Date.now()) })
Matching(invs, code, t) ==
  { inv \in invs : inv.code = code /\ inv.status = "active" /\ inv.expiresAt > t }

WithCode(invs, code) == { inv \in invs : inv.code = code }

\* the value joinRes keeps in the specifications that do not look at it
UntracedJoin == [NoJoinRes EXCEPT !.why = "untraced"]

JoinRes(job, why, success) ==
  IF joinRes = UntracedJoin THEN UntracedJoin
  ELSE [code |-> job.inv.code, at |-> job.at, why |-> why, success |-> success, raised |-> FALSE,
        checked |-> job.op # "findInvite" \/ why = "invalid", seen |-> job.seen,
        babyId |-> job.id]

Tick(t) ==
  /\ t > now
  /\ now' = t
  /\ UNCHANGED <<evVars, auxVars, regVars, cloudBabies, jobs, syncLog, invitations, joinRequests, joinRes>>

\* createInvitation(babyId) with a database: code and expiry are made, the add is sent
CreateInvitation(babyId, code) ==
  /\ db
  /\ Len(jobs) < MaxJobs
  /\ Cardinality(invitations) < MaxInvites
  /\ jobs' = Append(jobs, [Job("invite", babyId, NoBaby, <<>>) EXCEPT
                             !.inv = Invitation(code, babyId, now)])
  /\ UNCHANGED <<evVars, regVars, cloudBabies, syncLog, joinVars>>

\* the add succeeded: the code is returned
CreateInvitationThen(i) ==
  /\ jobs[i].op = "invite"
  /\ invitations' = invitations \cup {jobs[i].inv}
  /\ jobs' = RemoveAt(jobs, i)
  /\ UNCHANGED <<evVars, auxVars, regVars, cloudBabies, syncLog, joinRequests, now, joinRes>>

\* the add failed: createInvitation throws
CreateInvitationCatch(i) ==
  /\ jobs[i].op = "invite"
  /\ jobs' = RemoveAt(jobs, i)
  /\ UNCHANGED <<evVars, regVars, cloudBabies, syncLog, joinVars>>

\* another user shares a baby of theirs
OtherCreateInvitation(babyId, code) ==
  /\ cloudBabies[babyId] # NoDoc
  /\ cloudBabies[babyId].data.openid = "other"
  /\ Cardinality(invitations) < MaxInvites
  /\ invitations' = invitations \cup {Invitation(code, babyId, now)}
  /\ invitations' # invitations
  /\ UNCHANGED <<evVars, auxVars, regVars, cloudBabies, jobs, syncLog, joinRequests, now, joinRes>>

\* confirmJoinFamily(code) without a database: throws
ConfirmJoinFamilyNoCloud(code) ==
  /\ ~db
  /\ joinRes' = [NoJoinRes EXCEPT !.code = code, !.at = now, !.why = "offline", !.raised = TRUE]
  /\ joinRes' # joinRes
  /\ UNCHANGED <<evVars, auxVars, regVars, cloudBabies, jobs, syncLog, invitations, joinRequests, now>>

\* confirmJoinFamily(code) with a database: the invitation is asked for
ConfirmJoinFamily(code) ==
  /\ db
  /\ Len(jobs) < MaxJobs
  /\ jobs' = Append(jobs, [Job("findInvite", <<>>, NoBaby, <<>>) EXCEPT
                             !.inv = [NoInv EXCEPT !.code = code], !.at = now])
  /\ UNCHANGED <<evVars, regVars, cloudBabies, syncLog, joinVars>>

\* no invitation matches: { success: false, '邀请码无效或已过期' }
ConfirmJoinInvalid(i) ==
  /\ jobs[i].op = "findInvite"
  /\ Matching(invitations, jobs[i].inv.code, jobs[i].at) = {}
  /\ joinRes' = JoinRes([jobs[i] EXCEPT !.seen = WithCode(invitations, jobs[i].inv.code)],
                        "invalid", FALSE)
  /\ jobs' = RemoveAt(jobs, i)
  /\ UNCHANGED <<evVars, auxVars, regVars, cloudBabies, syncLog, invitations, joinRequests, now>>

\* an invitation matches: res.data[0] names the baby, whose document is asked for
ConfirmJoinFound(i) ==
  /\ jobs[i].op = "findInvite"
  /\ \E invite \in Matching(invitations, jobs[i].inv.code, jobs[i].at) :
       jobs' = [jobs EXCEPT ![i] = [@ EXCEPT !.op = "getBaby", !.id = invite.babyId,
                                              !.inv = invite,
                                              !.seen = WithCode(invitations, invite.code)]]
  /\ UNCHANGED <<evVars, regVars, cloudBabies, syncLog, joinVars>>

\* the document arrived: the caller's join records for the baby are asked for
ConfirmJoinBaby(i) ==
  /\ jobs[i].op = "getBaby"
  /\ cloudBabies[jobs[i].id] # NoDoc
  /\ jobs' = [jobs EXCEPT ![i] = [@ EXCEPT !.op = "findJoin",
                                            !.baby = cloudBabies[jobs[i].id].data]]
  /\ UNCHANGED <<evVars, regVars, cloudBabies, syncLog, joinVars>>

JoinRecordsNone(babyId) == {}

\* join_requests.where({ babyId }).get(): the caller's own records, or every
\* user's when the collection is readable by all
JoinRecords(babyId) ==
  { r \in joinRequests : r.babyId = babyId /\ (joinReadAll \/ r.userId = "me") }

\* a join record exists: success, and the page saves the baby it got
ConfirmJoinAlready(i) ==
  /\ jobs[i].op = "findJoin"
  /\ JoinRecords(jobs[i].id) # {}
  /\ joinRes' = JoinRes(jobs[i], "already", TRUE)
  /\ babiesRaw' = updateLocalBaby(babiesRaw, jobs[i].baby)
  /\ jobs' = RemoveAt(jobs, i)
  /\ syncLog' = NoSync
  /\ UNCHANGED <<evVars, auxVars, current, listed, cloudBabies, invitations, joinRequests, now>>

\* no join record exists: an approved one is added
ConfirmJoinNew(i) ==
  /\ jobs[i].op = "findJoin"
  /\ JoinRecords(jobs[i].id) = {}
  /\ jobs' = [jobs EXCEPT ![i] = [@ EXCEPT !.op = "addJoin"]]
  /\ UNCHANGED <<evVars, regVars, cloudBabies, syncLog, joinVars>>

\* the add succeeded: success, and the page saves the baby it got
ConfirmJoinThen(i) ==
  /\ jobs[i].op = "addJoin"
  /\ joinRequests' = joinRequests \cup
        {[babyId |-> jobs[i].id, userId |-> "me", status |-> "approved",
          n |-> Cardinality(joinRequests) + 1]}
  /\ joinRes' = JoinRes(jobs[i], "joined", TRUE)
  /\ babiesRaw' = updateLocalBaby(babiesRaw, jobs[i].baby)
  /\ jobs' = RemoveAt(jobs, i)
  /\ syncLog' = NoSync
  /\ UNCHANGED <<evVars, auxVars, current, listed, cloudBabies, invitations, now>>

\* one of the four remote calls failed: { success: false, '加入失败: ...' }
ConfirmJoinCatch(i) ==
  /\ jobs[i].op \in {"findInvite", "getBaby", "findJoin", "addJoin"}
  /\ joinRes' = JoinRes(jobs[i], "error", FALSE)
  /\ jobs' = RemoveAt(jobs, i)
  /\ UNCHANGED <<evVars, auxVars, regVars, cloudBabies, syncLog, invitations, joinRequests, now>>

NextInvite ==
  \/ \E t \in Instants : Tick(t)
  \/ \E id \in BabyIds : OtherUpsertBaby(Baby(id, "Bo", Undefined))
  \/ \E id \in BabyIds, code \in Codes : CreateInvitation(id, code)
  \/ \E i \in DOMAIN jobs : CreateInvitationThen(i)
  \/ \E i \in DOMAIN jobs : CreateInvitationCatch(i)
  \/ \E id \in BabyIds, code \in Codes : OtherCreateInvitation(id, code)
  \/ \E code \in Codes : ConfirmJoinFamilyNoCloud(code)
  \/ \E code \in Codes : ConfirmJoinFamily(code)
  \/ \E i \in DOMAIN jobs : ConfirmJoinInvalid(i)
  \/ \E i \in DOMAIN jobs : ConfirmJoinFound(i)
  \/ \E i \in DOMAIN jobs : ConfirmJoinBaby(i)
  \/ \E i \in DOMAIN jobs : ConfirmJoinAlready(i)
  \/ \E i \in DOMAIN jobs : ConfirmJoinNew(i)
  \/ \E i \in DOMAIN jobs : ConfirmJoinThen(i)
  \/ \E i \in DOMAIN jobs : ConfirmJoinCatch(i)

SpecInvite == InitProfiles /\ [][NextInvite]_vars

(* ---- joining a family, with other users joining too ---- *)
\* another user redeems an invitation of the baby: their approved record is added
OtherJoins(babyId) ==
  /\ cloudBabies[babyId] # NoDoc
  /\ ~\E r \in joinRequests : r.babyId = babyId /\ r.userId = "third"
  /\ joinRequests' = joinRequests \cup
        {[babyId |-> babyId, userId |-> "third", status |-> "approved",
          n |-> Cardinality(joinRequests) + 1]}
  /\ UNCHANGED <<evVars, auxVars, regVars, cloudBabies, jobs, syncLog, invitations, now, joinRes>>

\* the deployment decides who may read join_requests
InitJoin ==
  /\ InitEvents
  /\ ~watchOK
  /\ babiesRaw = <<>>
  /\ current = <<>>
  /\ listed = NotListed
  /\ cloudBabies = [id \in CloudIds |-> NoDoc]
  /\ jobs = <<>>
  /\ syncLog = NoSync
  /\ invitations = {}
  /\ joinRequests = {}
  /\ now = 0
  /\ joinRes = NoJoinRes
  /\ joinReadAll \in BOOLEAN
  /\ link = NoLink
  /\ upsertRes = Untraced
  /\ InitExt

NextJoin ==
  \/ \E id \in BabyIds : OtherUpsertBaby(Baby(id, "Bo", Undefined))
  \/ \E id \in BabyIds, code \in Codes : OtherCreateInvitation(id, code)
  \/ \E id \in BabyIds : OtherJoins(id)
  \/ \E code \in Codes : ConfirmJoinFamilyNoCloud(code)
  \/ \E code \in Codes : ConfirmJoinFamily(code)
  \/ \E i \in DOMAIN jobs : ConfirmJoinInvalid(i)
  \/ \E i \in DOMAIN jobs : ConfirmJoinFound(i)
  \/ \E i \in DOMAIN jobs : ConfirmJoinBaby(i)
  \/ \E i \in DOMAIN jobs : ConfirmJoinAlready(i)
  \/ \E i \in DOMAIN jobs : ConfirmJoinNew(i)
  \/ \E i \in DOMAIN jobs : ConfirmJoinThen(i)
  \/ \E i \in DOMAIN jobs : ConfirmJoinCatch(i)
  \/ ListBabies

SpecJoin == InitJoin /\ [][NextJoin]_vars

(* ---- exitFamily ---- *)
ExitRes(babyId, success, remote) ==
  [n |-> 1 - exitRes.n, babyId |-> babyId, success |-> success, remote |-> remote]

\* exitFamily(babyId) without a database: the baby is removed locally, true
ExitFamilyNoCloud(id) ==
  /\ ~db
  /\ LET st == deleteBabyById(babiesRaw, current, id)
     IN babiesRaw' = st[1] /\ current' = st[2]
  /\ exitRes' = ExitRes(id, TRUE, "unavailable")
  /\ syncLog' = NoSync
  /\ UNCHANGED <<evVars, listed, cloudBabies, jobs, invitations, joinRequests, now, joinRes,
                 joinReadAll, link, upsertRes, pureVars>>

\* exitFamily(babyId) with a database: the join records of the baby are asked for
ExitFamily(id) ==
  /\ db
  /\ Len(jobs) < MaxJobs
  /\ jobs' = Append(jobs, Job("exitFind", id, NoBaby, <<>>))
  /\ UNCHANGED <<evVars, regVars, cloudBabies, syncLog, joinVars>>

\* the query answered with records: one remove per record is sent
ExitFound(i) ==
  /\ jobs[i].op = "exitFind"
  /\ JoinRecords(jobs[i].id) # {}
  /\ jobs' = [jobs EXCEPT ![i] = [@ EXCEPT !.op = "exitRemove", !.seen = JoinRecords(jobs[i].id)]]
  /\ UNCHANGED <<evVars, regVars, cloudBabies, syncLog, joinVars>>

\* deleteBabyById(babyId); return true
ExitDone(i, gone) ==
  /\ joinRequests' = joinRequests \ gone
  /\ LET st == deleteBabyById(babiesRaw, current, jobs[i].id)
     IN babiesRaw' = st[1] /\ current' = st[2]
  /\ exitRes' = ExitRes(jobs[i].id, TRUE, IF gone = {} THEN "none" ELSE "removed")
  /\ jobs' = RemoveAt(jobs, i)
  /\ syncLog' = NoSync
  /\ UNCHANGED <<evVars, listed, cloudBabies, invitations, now, joinRes, joinReadAll, link,
                 upsertRes, pureVars>>

\* the query answered with no record: only the local removal
ExitNothing(i) ==
  /\ jobs[i].op = "exitFind"
  /\ JoinRecords(jobs[i].id) = {}
  /\ ExitDone(i, {})

\* every remove succeeded
ExitRemoveThen(i) ==
  /\ jobs[i].op = "exitRemove"
  /\ ExitDone(i, jobs[i].seen)

\* the query or one of the removes failed (the network, or a record of another
\* user that this user may not remove): false, the removes that did succeed
\* stay done
ExitCatch(i) ==
  /\ jobs[i].op \in {"exitFind", "exitRemove"}
  /\ \E gone \in SUBSET jobs[i].seen :
       /\ jobs[i].op = "exitFind" => gone = {}
       /\ jobs[i].op = "exitRemove" => gone # jobs[i].seen
       /\ joinRequests' = joinRequests \ gone
  /\ exitRes' = ExitRes(jobs[i].id, FALSE, "failed")
  /\ jobs' = RemoveAt(jobs, i)
  /\ UNCHANGED <<evVars, regVars, cloudBabies, syncLog, invitations, now, joinRes, joinReadAll,
                 link, upsertRes, pureVars>>

\* the device loses or regains the cloud capability between two launches
CloudChanges ==
  /\ jobs = <<>>
  /\ db' = ~db
  /\ UNCHANGED <<watchOK, cloudEvents, cloudRefl, localEvents, localRefl, listeners,
                 watchers, calls, pushes, got, done, qres, started, nlid>>
  /\ UNCHANGED <<regVars, shVars>>

\* the code the owner of a baby hands out
CodeOf(id) == IF id = <<"a">> THEN "111111" ELSE "222222"

\* another user has created the babies and handed out a code for each
InitExit ==
  /\ InitEvents
  /\ ~watchOK
  /\ babiesRaw = <<>>
  /\ current = <<>>
  /\ listed = NotListed
  /\ cloudBabies = [id \in CloudIds |->
        IF id \in BabyIds
        THEN [data |-> [Baby(id, "Bo", Undefined) EXCEPT !.openid = "other"], isDeleted |-> FALSE]
        ELSE NoDoc]
  /\ jobs = <<>>
  /\ syncLog = NoSync
  /\ invitations = { Invitation(CodeOf(id), id, 0) : id \in BabyIds }
  /\ joinRequests = {}
  /\ now = 0
  /\ joinRes = UntracedJoin
  /\ joinReadAll \in BOOLEAN
  /\ link = NoLink
  /\ upsertRes = Untraced
  /\ InitExt

NextExit ==
  \/ \E id \in BabyIds : OtherJoins(id)
  \/ \E code \in Codes : ConfirmJoinFamily(code)
  \/ \E i \in DOMAIN jobs : ConfirmJoinFound(i)
  \/ \E i \in DOMAIN jobs : ConfirmJoinBaby(i)
  \/ \E i \in DOMAIN jobs : ConfirmJoinAlready(i)
  \/ \E i \in DOMAIN jobs : ConfirmJoinNew(i)
  \/ \E i \in DOMAIN jobs : ConfirmJoinThen(i)
  \/ \E i \in DOMAIN jobs : ConfirmJoinCatch(i)
  \/ \E id \in BabyIds : ExitFamilyNoCloud(id)
  \/ \E id \in BabyIds : ExitFamily(id)
  \/ \E i \in DOMAIN jobs : ExitFound(i)
  \/ \E i \in DOMAIN jobs : ExitNothing(i)
  \/ \E i \in DOMAIN jobs : ExitRemoveThen(i)
  \/ \E i \in DOMAIN jobs : ExitCatch(i)
  \/ CloudChanges

SpecExit == InitExit /\ [][NextExit]_vars

Done(op, ok, why, rec, babyId) ==
  [n |-> done.n + 1, op |-> op, ok |-> ok, why |-> why, rec |-> rec, babyId |-> babyId]

\* the continuation of a listEvents promise: the page's own call, the fan-out
\* of notifyListeners, or the initial load of watchEvents
QueryCont(q, list, refl, via) ==
  /\ qres' = IF q.cont = "user"
             THEN [babyId |-> q.babyId, startTs |-> q.startTs, endTs |-> q.endTs,
                   via |-> via, list |-> list]
             ELSE qres
  /\ got' = CASE q.cont = "notify" ->
                   Fanout(got, listeners, q.babyId, Entry("bus", q.mut, q.babyId, list, refl))
             [] q.cont = "init" ->
                   [got EXCEPT ![q.lid] = Called(@, Entry("init", 0, q.babyId, list, refl))]
             [] OTHER -> got

\* notifyListeners(babyId) with a database: listEvents(babyId) is issued and
\* its result fanned out when it settles
NotifyTwice(cs, b, m) ==
  Append(Append(cs, Query(b, 0, 0, "notify", 0, m)), Query(b, 0, 0, "notify", 0, m))

NotifyListeners(cs, b, m) == Append(cs, Query(b, 0, 0, "notify", 0, m))

(* ---- addEvent ---- *)
AddToCacheSkipped(list, toSave) == list
AddToCacheAlone(list, toSave) == <<toSave>>

\* list.unshift(toSave); wx.setStorageSync(key, list)
AddToCache(list, toSave) == Unshift(list, toSave)

\* if (!database) throw new Error('需要联网才能添加记录')
AddEventNoCloud(rec) ==
  /\ ~db
  /\ started < MaxOps
  /\ started' = started + 1
  /\ done' = Done("add", FALSE, "unavailable", rec, rec.babyId)
  /\ UNCHANGED <<profVars, db, watchOK, cloudEvents, cloudRefl, localEvents, localRefl,
                 listeners, watchers, calls, pushes, got, qres, nlid>>

\* await database.collection('events').add(...)
AddEventStart(rec) ==
  /\ db
  /\ started < MaxOps
  /\ Len(calls) < MaxCalls
  /\ started' = started + 1
  /\ calls' = Append(calls, Mutation("add", rec, rec.babyId, Absent))
  /\ UNCHANGED <<profVars, db, watchOK, cloudEvents, cloudRefl, localEvents, localRefl,
                 listeners, watchers, pushes, got, done, qres, nlid>>

\* the add resolved: _id, unshift into the cache, notifyListeners, return
AddEventThen(i) ==
  LET c == calls[i]
      m == done.n + 1
      b == c.rec.babyId
      toSave == [c.rec EXCEPT !._id = m]
      cloud2 == cloudEvents \cup {toSave}
  IN /\ c.op = "add"
     /\ cloudEvents' = cloud2
     /\ cloudRefl' = [cloudRefl EXCEPT ![b] = @ \cup {m}]
     /\ localEvents' = [localEvents EXCEPT ![b] = AddToCache(@, toSave)]
     /\ localRefl' = [localRefl EXCEPT ![b] = @ \cup {m}]
     /\ calls' = NotifyListeners(RemoveAt(calls, i), b, m)
     /\ \E d \in DescOrders({ e \in cloud2 : e.babyId = b }) :
          pushes' = pushes \cup PushesAfter(b, m, d, cloudRefl'[b])
     /\ done' = Done("add", TRUE, "", toSave, b)
     /\ UNCHANGED <<profVars, db, watchOK, listeners, watchers, got, qres, started, nlid>>

\* an offline-first catch: a local id, the cache and the listeners
AddEventCatchOffline(i) ==
  LET c == calls[i]
      m == done.n + 1
      b == c.rec.babyId
      toSave == [c.rec EXCEPT !._id = m]
  IN /\ c.op = "add"
     /\ localEvents' = [localEvents EXCEPT ![b] = Unshift(@, toSave)]
     /\ localRefl' = [localRefl EXCEPT ![b] = @ \cup {m}]
     /\ calls' = NotifyListeners(RemoveAt(calls, i), b, m)
     /\ done' = Done("add", TRUE, "", toSave, b)
     /\ UNCHANGED <<profVars, db, watchOK, cloudEvents, cloudRefl, listeners, watchers, pushes, got,
                    qres, started, nlid>>

\* the add rejected: throw new Error('添加失败，请检查网络')
AddEventCatch(i) ==
  LET c == calls[i]
  IN /\ c.op = "add"
     /\ calls' = RemoveAt(calls, i)
     /\ done' = Done("add", FALSE, "failed", c.rec, c.rec.babyId)
     /\ UNCHANGED <<profVars, db, watchOK, cloudEvents, cloudRefl, localEvents, localRefl,
                    listeners, watchers, pushes, got, qres, started, nlid>>

(* ---- listEvents ---- *)
\* no database: Promise.resolve(filterByRange(list, startTs, endTs))
ListEventsLocal(b, startTs, endTs) ==
  /\ ~db
  /\ qres' = [babyId |-> b, startTs |-> startTs, endTs |-> endTs, via |-> "local",
              list |-> LocalQuery(b, startTs, endTs)]
  /\ UNCHANGED <<profVars, db, watchOK, cloudEvents, cloudRefl, localEvents, localRefl, listeners,
                 watchers, calls, pushes, got, done, started, nlid>>

ListEventsStart(b, startTs, endTs) ==
  /\ db
  /\ Len(calls) < MaxCalls
  /\ calls' = Append(calls, Query(b, startTs, endTs, "user", 0, 0))
  /\ UNCHANGED <<profVars, db, watchOK, cloudEvents, cloudRefl, localEvents, localRefl, listeners,
                 watchers, pushes, got, done, qres, started, nlid>>

\* the remote evaluates where(...).orderBy('timestamp','desc').get()
ServeQuery(i) ==
  LET q == calls[i]
  IN /\ q.op = "query"
     /\ ~q.served
     /\ \E d \in DescOrders(RemoteMatch(q.babyId, q.startTs, q.endTs)) :
          calls' = [calls EXCEPT ![i] =
                      [q EXCEPT !.served = TRUE, !.data = d, !.refl = cloudRefl[q.babyId]]]
     /\ UNCHANGED <<profVars, db, watchOK, cloudEvents, cloudRefl, localEvents, localRefl, listeners,
                    watchers, pushes, got, done, qres, started, nlid>>

\* .then((res) => res.data)
ListEventsThen(i) ==
  LET q == calls[i]
  IN /\ q.op = "query"
     /\ q.served
     /\ calls' = RemoveAt(calls, i)
     /\ QueryCont(q, q.data, q.refl, "remote")
     /\ UNCHANGED <<profVars, db, watchOK, cloudEvents, cloudRefl, localEvents, localRefl, listeners,
                    watchers, pushes, done, started, nlid>>

\* .catch(() => filterByRange(wx.getStorageSync(key) || [], startTs, endTs))
ListEventsCatch(i) ==
  LET q == calls[i]
  IN /\ q.op = "query"
     /\ calls' = RemoveAt(calls, i)
     /\ QueryCont(q, LocalQuery(q.babyId, q.startTs, q.endTs), localRefl[q.babyId], "local")
     /\ UNCHANGED <<profVars, db, watchOK, cloudEvents, cloudRefl, localEvents, localRefl, listeners,
                    watchers, pushes, done, started, nlid>>

(* ---- updateEvent ---- *)
MergeLocalKeepsOld(list, rec) ==
  LET idx == IndexOf(list, rec._id)
      Pick(new, old) == IF new = Absent THEN old ELSE new
  IN IF idx > 0
     THEN [list EXCEPT ![idx] =
             [@ EXCEPT !.type = rec.type, !.timestamp = rec.timestamp,
                       !.quantity = Pick(rec.quantity, @),
                       !.durationMinutes = Pick(rec.durationMinutes, @), !.notes = rec.notes]]
     ELSE list

\* the local merge: type, timestamp, quantity, durationMinutes, notes
MergeLocal(list, rec) ==
  LET idx == IndexOf(list, rec._id)
  IN IF idx > 0
     THEN [list EXCEPT ![idx] =
             [@ EXCEPT !.type = rec.type, !.timestamp = rec.timestamp,
                       !.quantity = rec.quantity,
                       !.durationMinutes = rec.durationMinutes, !.notes = rec.notes]]
     ELSE list

\* doc(rec._id).update({data: {type, timestamp, quantity, durationMinutes, notes}})
UpdateRemote(docs, rec) ==
  { IF e._id = rec._id
    THEN [e EXCEPT !.type = rec.type, !.timestamp = rec.timestamp,
                   !.quantity = rec.quantity,
                   !.durationMinutes = rec.durationMinutes, !.notes = rec.notes]
    ELSE e : e \in docs }

\* the records a page edits: an event it was shown, with a new time
UpdateInputs ==
  { [e EXCEPT !.timestamp = t] :
      e \in cloudEvents \cup UNION { Range(localEvents[b]) : b \in Subjects },
      t \in Times }

\* if (!rec._id) return rec
UpdateEventNoId(rec) ==
  /\ rec._id = Absent
  /\ started < MaxOps
  /\ started' = started + 1
  /\ done' = Done("update", TRUE, "noid", rec, rec.babyId)
  /\ UNCHANGED <<profVars, db, watchOK, cloudEvents, cloudRefl, localEvents, localRefl,
                 listeners, watchers, calls, pushes, got, qres, nlid>>

\* no database: the cache is merged and the listeners are notified from it
UpdateEventLocal(rec) ==
  LET b == rec.babyId
      m == done.n + 1
      hit == IndexOf(localEvents[b], rec._id) > 0
  IN /\ ~db
     /\ rec._id # Absent
     /\ started < MaxOps
     /\ started' = started + 1
     /\ localEvents' = [localEvents EXCEPT ![b] = MergeLocal(@, rec)]
     /\ localRefl' = [localRefl EXCEPT ![b] = IF hit THEN @ \cup {m} ELSE @]
     /\ got' = Fanout(got, listeners, b,
                      Entry("bus", m, b, filterByRange(localEvents'[b], 0, 0), localRefl'[b]))
     /\ done' = Done("update", TRUE, "", rec, b)
     /\ UNCHANGED <<profVars, db, watchOK, cloudEvents, cloudRefl, listeners, watchers, calls,
                    pushes, qres, nlid>>

UpdateEventStart(rec) ==
  /\ db
  /\ rec._id # Absent
  /\ started < MaxOps
  /\ Len(calls) < MaxCalls
  /\ started' = started + 1
  /\ calls' = Append(calls, Mutation("update", rec, rec.babyId, rec._id))
  /\ UNCHANGED <<profVars, db, watchOK, cloudEvents, cloudRefl, localEvents, localRefl,
                 listeners, watchers, pushes, got, done, qres, nlid>>

\* the update resolved: merge into the cache, notifyListeners, return
UpdateEventThen(i) ==
  LET c == calls[i]
      m == done.n + 1
      b == c.rec.babyId
      cloud2 == UpdateRemote(cloudEvents, c.rec)
      hit == IndexOf(localEvents[b], c.rec._id) > 0
  IN /\ c.op = "update"
     /\ cloudEvents' = cloud2
     /\ cloudRefl' = [cloudRefl EXCEPT ![b] = @ \cup {m}]
     /\ localEvents' = [localEvents EXCEPT ![b] = MergeLocal(@, c.rec)]
     /\ localRefl' = [localRefl EXCEPT ![b] = IF hit THEN @ \cup {m} ELSE @]
     /\ calls' = NotifyListeners(RemoveAt(calls, i), b, m)
     /\ \E d \in DescOrders({ e \in cloud2 : e.babyId = b }) :
          pushes' = pushes \cup
             (IF \E e \in cloudEvents : e._id = c.rec._id
              THEN PushesAfter(b, m, d, cloudRefl'[b]) ELSE {})
     /\ done' = Done("update", TRUE, "", c.rec, b)
     /\ UNCHANGED <<profVars, db, watchOK, listeners, watchers, got, qres, started, nlid>>

\* the update rejected: throw new Error('更新失败，请检查网络')
UpdateEventCatch(i) ==
  LET c == calls[i]
  IN /\ c.op = "update"
     /\ calls' = RemoveAt(calls, i)
     /\ done' = Done("update", FALSE, "failed", c.rec, c.rec.babyId)
     /\ UNCHANGED <<profVars, db, watchOK, cloudEvents, cloudRefl, localEvents, localRefl,
                    listeners, watchers, pushes, got, qres, started, nlid>>

(* ---- deleteEvent ---- *)
\* the (babyId, _id) pairs a page asks to delete: an event it was shown, or
\* one that is gone by now
DeleteInputs ==
  LET known == cloudEvents \cup UNION { Range(localEvents[b]) : b \in Subjects }
  IN { <<e.babyId, e._id>> : e \in known }
       \cup { <<b, id>> : b \in Subjects,
                          id \in { k \in 1..done.n : \A e \in known : e._id # k } }

\* if (!database) throw new Error('需联网删除')
DeleteEventNoCloud(b, id) ==
  /\ ~db
  /\ started < MaxOps
  /\ started' = started + 1
  /\ done' = Done("delete", FALSE, "unavailable", [NoRec EXCEPT !._id = id], b)
  /\ UNCHANGED <<profVars, db, watchOK, cloudEvents, cloudRefl, localEvents, localRefl,
                 listeners, watchers, calls, pushes, got, qres, nlid>>

DeleteEventStart(b, id) ==
  /\ db
  /\ started < MaxOps
  /\ Len(calls) < MaxCalls
  /\ started' = started + 1
  /\ calls' = Append(calls, Mutation("delete", [NoRec EXCEPT !._id = id], b, id))
  /\ UNCHANGED <<profVars, db, watchOK, cloudEvents, cloudRefl, localEvents, localRefl,
                 listeners, watchers, pushes, got, done, qres, nlid>>

\* the remove resolved: filter the cache, write it if it changed, notifyListeners
DeleteEventThen(i) ==
  LET c == calls[i]
      m == done.n + 1
      b == c.babyId
      cloud2 == { e \in cloudEvents : e._id # c.id }
      filtered == SelectSeq(localEvents[b], LAMBDA e : e._id # c.id)
  IN /\ c.op = "delete"
     /\ cloudEvents' = cloud2
     /\ cloudRefl' = [cloudRefl EXCEPT ![b] = @ \cup {m}]
     /\ localEvents' = IF Len(filtered) # Len(localEvents[b])
                       THEN [localEvents EXCEPT ![b] = filtered]
                       ELSE localEvents
     /\ localRefl' = [localRefl EXCEPT ![b] = @ \cup {m}]
     /\ calls' = NotifyListeners(RemoveAt(calls, i), b, m)
     /\ \E d \in DescOrders({ e \in cloud2 : e.babyId = b }) :
          pushes' = pushes \cup
             (IF cloud2 # cloudEvents THEN PushesAfter(b, m, d, cloudRefl'[b]) ELSE {})
     /\ done' = Done("delete", TRUE, "", c.rec, b)
     /\ UNCHANGED <<profVars, db, watchOK, listeners, watchers, got, qres, started, nlid>>

\* the remove rejected: throw new Error('删除失败，请检查网络')
DeleteEventCatch(i) ==
  LET c == calls[i]
  IN /\ c.op = "delete"
     /\ calls' = RemoveAt(calls, i)
     /\ done' = Done("delete", FALSE, "failed", c.rec, c.babyId)
     /\ UNCHANGED <<profVars, db, watchOK, cloudEvents, cloudRefl, localEvents, localRefl,
                    listeners, watchers, pushes, got, qres, started, nlid>>

(* ---- watchEvents ---- *)
\* listeners.push(listener); listEvents(babyId).then(onChange); the cloud
\* watcher is opened when the database offers watch and watch() does not throw
WatchEvents(b, opened) ==
  LET lid == nlid + 1
  IN /\ nlid < Cardinality(DOMAIN got)
     /\ opened => (db /\ watchOK)
     /\ nlid' = lid
     /\ listeners' = Append(listeners, [lid |-> lid, babyId |-> b])
     /\ watchers' = IF opened THEN watchers \cup {lid} ELSE watchers
     /\ IF db
        THEN /\ Len(calls) < MaxCalls
             /\ calls' = Append(calls, Query(b, 0, 0, "init", lid, 0))
             /\ got' = [got EXCEPT ![lid].sub = b]
        ELSE /\ calls' = calls
             /\ got' = [got EXCEPT ![lid] =
                          Called([@ EXCEPT !.sub = b],
                                 Entry("init", 0, b, LocalQuery(b, 0, 0), localRefl[b]))]
     /\ UNCHANGED <<profVars, db, watchOK, cloudEvents, cloudRefl, localEvents, localRefl, pushes,
                    done, qres, started>>

UnwatchSubject(lid) ==
  /\ lid \in 1..nlid
  /\ listeners' = SelectSeq(listeners, LAMBDA l : l.babyId # got[lid].sub)
  /\ watchers' = watchers \ {lid}
  /\ UNCHANGED <<profVars, db, watchOK, cloudEvents, cloudRefl, localEvents, localRefl, calls,
                 pushes, got, done, qres, started, nlid>>

\* the function watchEvents returned: drop the registration, close the watcher
Unwatch(lid) ==
  /\ lid \in 1..nlid
  /\ listeners' = SelectSeq(listeners, LAMBDA l : l.lid # lid)
  /\ watchers' = watchers \ {lid}
  /\ UNCHANGED <<profVars, db, watchOK, cloudEvents, cloudRefl, localEvents, localRefl, calls,
                 pushes, got, done, qres, started, nlid>>

\* the watcher's onChange: onChange(snapshot.docs)
WatcherOnChange(p) ==
  /\ p \in pushes
  /\ p.lid \in watchers
  /\ pushes' = pushes \ {p}
  /\ got' = [got EXCEPT ![p.lid] = Called(@, Entry("push", p.mut, p.babyId, p.docs, p.refl))]
  /\ UNCHANGED <<profVars, db, watchOK, cloudEvents, cloudRefl, localEvents, localRefl, listeners,
                 watchers, calls, done, qres, started, nlid>>

\* a push that reaches a closed watcher is dropped
WatcherClosed(p) ==
  /\ p \in pushes
  /\ p.lid \notin watchers
  /\ pushes' = pushes \ {p}
  /\ UNCHANGED <<profVars, db, watchOK, cloudEvents, cloudRefl, localEvents, localRefl, listeners,
                 watchers, calls, got, done, qres, started, nlid>>

\* the mini program is launched again: module state is rebuilt (initCloud runs
\* anew, listeners = []), local storage and the remote collections persist
Relaunch ==
  /\ db' \in BOOLEAN
  /\ listeners' = <<>>
  /\ watchers' = {}
  /\ calls' = <<>>
  /\ pushes' = {}
  /\ got' = [l \in DOMAIN got |-> NoneGot]
  /\ nlid' = 0
  /\ done' = [NoDone EXCEPT !.n = done.n]
  /\ qres' = NoRes
  /\ UNCHANGED <<profVars, watchOK, cloudEvents, cloudRefl, localEvents, localRefl, started>>

\* the calls of a page and the completions of the remote calls they made
StoreCalls ==
  \/ \E rec \in EventInputs : AddEventNoCloud(rec)
  \/ \E rec \in EventInputs : AddEventStart(rec)
  \/ \E i \in DOMAIN calls : AddEventThen(i)
  \/ \E i \in DOMAIN calls : AddEventCatch(i)
  \/ \E rec \in EventInputs : UpdateEventNoId(rec)
  \/ \E rec \in UpdateInputs : UpdateEventLocal(rec)
  \/ \E rec \in UpdateInputs : UpdateEventStart(rec)
  \/ \E i \in DOMAIN calls : UpdateEventThen(i)
  \/ \E i \in DOMAIN calls : UpdateEventCatch(i)
  \/ \E x \in DeleteInputs : DeleteEventNoCloud(x[1], x[2])
  \/ \E x \in DeleteInputs : DeleteEventStart(x[1], x[2])
  \/ \E i \in DOMAIN calls : DeleteEventThen(i)
  \/ \E i \in DOMAIN calls : DeleteEventCatch(i)
  \/ \E i \in DOMAIN calls : ServeQuery(i)
  \/ \E i \in DOMAIN calls : ListEventsThen(i)
  \/ \E i \in DOMAIN calls : ListEventsCatch(i)

\* the record store as a page without subscription uses it
NextStore ==
  \/ StoreCalls
  \/ \E b \in Subjects, r \in Ranges : ListEventsLocal(b, r[1], r[2])
  \/ \E b \in Subjects, r \in Ranges : ListEventsStart(b, r[1], r[2])
  \/ Relaunch

\* the record store with the change bus
NextBus ==
  \/ StoreCalls
  \/ \E b \in Subjects, opened \in BOOLEAN : WatchEvents(b, opened)
  \/ \E lid \in Lids : Unwatch(lid)
  \/ \E p \in pushes : WatcherOnChange(p)
  \/ \E p \in pushes : WatcherClosed(p)
  \/ Relaunch

SpecStore == InitAll /\ [][NextStore]_vars
SpecBus == InitAll /\ [][NextBus]_vars

\* two pages (or one page twice) subscribe, events are added, pages unsubscribe
MaxWatch == 2   \* watchEvents registrations in the specification of unsubscribing

InitWatch ==
  /\ db \in BOOLEAN
  /\ watchOK \in BOOLEAN
  /\ cloudEvents = {}
  /\ cloudRefl = [b \in Subjects |-> {}]
  /\ localEvents = [b \in Subjects |-> <<>>]
  /\ localRefl = [b \in Subjects |-> {}]
  /\ listeners = <<>>
  /\ watchers = {}
  /\ calls = <<>>
  /\ pushes = {}
  /\ got = [l \in 1..MaxWatch |-> NoneGot]
  /\ done = NoDone
  /\ qres = NoRes
  /\ started = 0
  /\ nlid = 0
  /\ InitRegistry

\* the events added while pages subscribe and unsubscribe: one feed per baby
WatchInputs == { rec \in EventInputs : rec.type = "feed" /\ rec.timestamp = 1 }

NextWatch ==
  \/ \E b \in Subjects, opened \in BOOLEAN : WatchEvents(b, opened)
  \/ \E lid \in 1..MaxWatch : Unwatch(lid)
  \/ \E rec \in WatchInputs : AddEventNoCloud(rec)
  \/ \E rec \in WatchInputs : AddEventStart(rec)
  \/ \E i \in DOMAIN calls : AddEventThen(i)
  \/ \E i \in DOMAIN calls : AddEventCatch(i)
  \/ \E i \in DOMAIN calls : ServeQuery(i)
  \/ \E i \in DOMAIN calls : ListEventsThen(i)
  \/ \E i \in DOMAIN calls : ListEventsCatch(i)
  \/ \E p \in pushes : WatcherOnChange(p)
  \/ \E p \in pushes : WatcherClosed(p)

SpecWatch == InitWatch /\ [][NextWatch]_vars

\* a remote call settles: its promise resolves or rejects in the end
Settles(i) == i \in DOMAIN calls /\ (ListEventsThen(i) \/ ListEventsCatch(i))
SpecBusLive == SpecBus /\ \A i \in 1..(MaxCalls + 1) : WF_vars(Settles(i))

(* ---- linkSleepAndWake ---- *)
Minute == 60000
Day == 86400000

\* the sleep records a store holds as a wake is recorded: none, one or two,
\* without a duration, with 0, or with one already set
SleepRecs(id, subjects) ==
  { [_id |-> id, babyId |-> b, type |-> "sleep", timestamp |-> t, quantity |-> Absent,
     durationMinutes |-> d, notes |-> ""] :
     b \in subjects, t \in {Day, Day + 30 * Minute}, d \in {Absent, 0, 30} }
SleepStores ==
  {{}} \cup { {a} : a \in SleepRecs(1, Subjects) }
       \cup { {a, b} : a \in SleepRecs(1, Subjects), b \in SleepRecs(2, {"b1"}) }

\* the records linkSleepAndWake is called with: wakes of b1, and one that is no wake
WakeInputs ==
  { [_id |-> 9, babyId |-> "b1", type |-> ty, timestamp |-> t, quantity |-> Absent,
     durationMinutes |-> Absent, notes |-> ""] :
     ty \in {"wake"},
     t \in {Day, Day + 10000, Day + 45 * Minute, Day + 90 * Minute, 2 * Day, 2 * Day + 1} }
  \cup { [_id |-> 9, babyId |-> "b1", type |-> "feed", timestamp |-> Day + 45 * Minute,
          quantity |-> 120, durationMinutes |-> Absent, notes |-> ""] }

\* type 'sleep', oneDayAgo <= timestamp < now
InWindow(e, wake) ==
  /\ e.type = "sleep"
  /\ e.timestamp >= wake.timestamp - Day
  /\ e.timestamp < wake.timestamp

CloudAnySleep(wake) ==
  LET S == { e \in cloudEvents : e.babyId = wake.babyId /\ InWindow(e, wake) }
  IN IF S = {} THEN {NoRec} ELSE S

\* where({ babyId, type: 'sleep', timestamp: gte(oneDayAgo).and(lt(now)) })
\*   .orderBy('timestamp', 'desc').limit(1): res.data[0], or nothing
CloudLastSleep(wake) ==
  LET S == { e \in cloudEvents : e.babyId = wake.babyId /\ InWindow(e, wake) }
  IN IF S = {} THEN {NoRec}
     ELSE { e \in S : \A f \in S : f.timestamp <= e.timestamp }

\* list.find(e => ...): the first match in storage order (the filter-and-sort
\* after it runs only when find matched nothing, and then matches nothing)
LocalLastSleep(list, wake) ==
  IF \E i \in DOMAIN list : InWindow(list[i], wake)
  THEN list[CHOOSE i \in DOMAIN list :
              InWindow(list[i], wake) /\ \A j \in 1..(i - 1) : ~InWindow(list[j], wake)]
  ELSE NoRec

\* Math.round(ms / 1000 / 60) for ms >= 0: halves round up
RoundMinutes(ms) == (2 * ms + Minute) \div (2 * Minute)

UnpairedAlways(e) == TRUE

\* !lastSleep.durationMinutes || lastSleep.durationMinutes === 0
Unpaired(e) == e.durationMinutes \in {Absent, 0}

\* from "if (!lastSleep)" on: the local fallback, the test of the duration, and
\* updateEvent(lastSleep) up to its remote update
LinkDecide(cs, wake, hit) ==
  LET b == wake.babyId
      lastSleep == IF hit # NoRec THEN hit ELSE LocalLastSleep(localEvents[b], wake)
      diff == IF lastSleep = NoRec THEN 0
              ELSE RoundMinutes(wake.timestamp - lastSleep.timestamp)
      upd == lastSleep # NoRec /\ Unpaired(lastSleep) /\ diff > 0
      rec == [lastSleep EXCEPT !.durationMinutes = diff]
      m == done.n + 1
      cached == IndexOf(localEvents[b], rec._id) > 0
  IN /\ link' = [n |-> link.n + 1, wake |-> wake, sleep |-> lastSleep,
                 via |-> IF hit # NoRec THEN "cloud" ELSE "local",
                 diff |-> diff, updates |-> upd]
     /\ IF upd /\ rec._id # Absent /\ db
        THEN /\ calls' = Append(cs, Mutation("update", rec, b, rec._id))
             /\ UNCHANGED <<localEvents, localRefl, got, done>>
        ELSE IF upd /\ rec._id # Absent
        THEN /\ calls' = cs
             /\ localEvents' = [localEvents EXCEPT ![b] = MergeLocal(@, rec)]
             /\ localRefl' = [localRefl EXCEPT ![b] = IF cached THEN @ \cup {m} ELSE @]
             /\ got' = Fanout(got, listeners, b,
                              Entry("bus", m, b, filterByRange(localEvents'[b], 0, 0),
                                    localRefl'[b]))
             /\ done' = Done("update", TRUE, "", rec, b)
        ELSE /\ calls' = cs
             /\ UNCHANGED <<localEvents, localRefl, got, done>>
     /\ UNCHANGED <<regVars, cloudBabies, jobs, syncLog, invitations, joinRequests, now,
                    joinRes, joinReadAll, upsertRes, extVars, db, watchOK, cloudEvents,
                    cloudRefl,
                    listeners, watchers, pushes, qres, nlid>>

\* if (wakeRecord.type !== 'wake') return
LinkSleepAndWakeNoWake(wake) ==
  /\ wake.type # "wake"
  /\ started < MaxOps
  /\ started' = started + 1
  /\ UNCHANGED <<profVars, db, watchOK, cloudEvents, cloudRefl, localEvents, localRefl,
                 listeners, watchers, calls, pushes, got, done, qres, nlid>>

\* with a database: the latest sleep of the window is asked for
LinkSleepAndWake(wake) ==
  /\ wake.type = "wake"
  /\ db
  /\ started < MaxOps
  /\ Len(calls) < MaxCalls
  /\ started' = started + 1
  /\ calls' = Append(calls, Mutation("linkQuery", wake, wake.babyId, Absent))
  /\ UNCHANGED <<profVars, db, watchOK, cloudEvents, cloudRefl, localEvents, localRefl,
                 listeners, watchers, pushes, got, done, qres, nlid>>

\* without a database: the cache alone is searched
LinkSleepAndWakeLocal(wake) ==
  /\ wake.type = "wake"
  /\ ~db
  /\ started < MaxOps
  /\ started' = started + 1
  /\ LinkDecide(calls, wake, NoRec)

\* the query resolved, with a record or with none
LinkQueryThen(i) ==
  /\ calls[i].op = "linkQuery"
  /\ \E hit \in CloudLastSleep(calls[i].rec) : LinkDecide(RemoveAt(calls, i), calls[i].rec, hit)
  /\ UNCHANGED started

\* the query rejected: logged, and the cache is searched
LinkQueryCatch(i) ==
  /\ calls[i].op = "linkQuery"
  /\ LinkDecide(RemoveAt(calls, i), calls[i].rec, NoRec)
  /\ UNCHANGED started

(* ---- aggregateDaily ---- *)
MaxLen == 2   \* events in each of the two lists that are aggregated

\* everything but the variables of the statistics, quick actions and ledgers
coreVars == <<evVars, regVars, cloudBabies, jobs, syncLog, invitations, joinRequests, now,
              joinRes, joinReadAll, link, upsertRes, exitRes>>

AggEvent(ty, q, d) ==
  [_id |-> Absent, babyId |-> "b1", type |-> ty, timestamp |-> 1, quantity |-> q,
   durationMinutes |-> d, notes |-> ""]

\* events of every type, with and without quantity and duration
AggEvents ==
  { AggEvent("feed", q, Absent) : q \in {Absent, 120} }
    \cup { AggEvent("sleep", Absent, d) : d \in {Absent, 30} }
    \cup { AggEvent(ty, Absent, Absent) : ty \in {"pee", "poop", "wake"} }
    \cup { AggEvent("drink", 90, Absent) }

AggLists == UNION { [1..n -> AggEvents] : n \in 0..MaxLen }

NoSum(dateKey) ==
  [dateKey |-> dateKey, feedCount |-> 0, feedMl |-> 0, drinkCount |-> 0, drinkMl |-> 0,
   peeCount |-> 0, poopCount |-> 0, sleepSessions |-> 0, sleepMinutes |-> 0]

\* e.quantity || 0, and Number(e.durationMinutes || e.duration || 0) for the
\* records of this program, which have no field duration
OrZero(x) == IF x = Absent THEN 0 ELSE x

AddToSumAlsoWake(sum, e) ==
  IF e.type = "wake" THEN [sum EXCEPT !.sleepSessions = @ + 1] ELSE sum

\* the switch of aggregateDaily on one event
AddToSum(sum, e) ==
  CASE e.type = "feed" -> [sum EXCEPT !.feedCount = @ + 1, !.feedMl = @ + OrZero(e.quantity)]
    [] e.type = "drink" -> [sum EXCEPT !.drinkCount = @ + 1, !.drinkMl = @ + OrZero(e.quantity)]
    [] e.type = "pee" -> [sum EXCEPT !.peeCount = @ + 1]
    [] e.type = "poop" -> [sum EXCEPT !.poopCount = @ + 1]
    [] e.type = "sleep" -> [sum EXCEPT !.sleepSessions = @ + 1,
                                       !.sleepMinutes = @ + OrZero(e.durationMinutes)]
    [] OTHER -> sum

\* events.forEach(...) from the zero summary
RECURSIVE SumFrom(_, _)
SumFrom(sum, events) ==
  IF events = <<>> THEN sum ELSE SumFrom(AddToSum(sum, Head(events)), Tail(events))

aggregateDaily(events, dateKey) == SumFrom(NoSum(dateKey), events)

InitAgg ==
  /\ InitEvents
  /\ InitProfile
  /\ \E a \in AggLists, b \in AggLists : agg = [NoAgg EXCEPT !.a = a, !.b = b]
  /\ ledger = NoLedger
  /\ quick = NoQuick

\* the page aggregates the first list, the second, or the two put together
Aggregate(part) ==
  /\ agg[part] = <<>>
  /\ agg' = [agg EXCEPT ![part] =
               <<aggregateDaily(CASE part = "ofA" -> agg.a [] part = "ofB" -> agg.b
                                  [] OTHER -> agg.a \o agg.b, "2024-01-01")>>]
  /\ UNCHANGED <<coreVars, ledger, quick>>

NextAgg == \E part \in {"ofA", "ofB", "ofBoth"} : Aggregate(part)

SpecAgg == InitAgg /\ [][NextAgg]_vars

(* ---- editing babies that were joined ---- *)
\* the registry as the profile page edits it, with babies of another user
\* that this user joins by their id
NextRole ==
  \/ \E baby \in UpsertInputs :
        baby.name # "" /\ baby.creatorInfo = Undefined /\ UpsertBaby(baby)
  \/ \E i \in DOMAIN jobs : UpsertBabyThen(i)
  \/ \E i \in DOMAIN jobs : UpsertBabyCatch(i)
  \/ \E baby \in OtherInputs : baby.name = "Bo" /\ OtherUpsertBaby(baby)
  \/ \E id \in BabyIds : JoinFamily(id)
  \/ \E i \in DOMAIN jobs : JoinFamilyThen(i)
  \/ \E i \in DOMAIN jobs : JoinFamilyCatch(i)

SpecRole == InitUpsert /\ [][NextRole]_vars

(* ---- the growth and milestone ledgers ---- *)
MaxAdds == 3   \* addGrowthRecord/addMilestone calls that reach the remote, per run

\* date keys are strings of digits of one width ("09" < "10"), as the date picker gives them
LedgerDates == {<<0, 9>>, <<1, 0>>}

\* what the pages hand to addGrowthRecord and addMilestone: a record without id
\* (height stands for the measurements, title for title and description)
LedgerInputs(kind) ==
  { [_id |-> Absent, id |-> Absent, babyId |-> b, date |-> d,
     height |-> (IF kind = "growth" THEN 50 ELSE Absent),
     title |-> (IF kind = "growth" THEN "" ELSE "first step")] :
     b \in Subjects, d \in LedgerDates }

\* a.localeCompare(b) on strings of digits: the sign of the first difference
RECURSIVE localeCompare(_, _)
localeCompare(a, b) ==
  IF a = <<>> THEN (IF b = <<>> THEN 0 ELSE -1)
  ELSE IF b = <<>> THEN 1
  ELSE IF Head(a) < Head(b) THEN -1
  ELSE IF Head(a) > Head(b) THEN 1
  ELSE localeCompare(Tail(a), Tail(b))

\* x put behind every record the comparator does not order after it
InsertByDate(sorted, x) ==
  LET before == { i \in DOMAIN sorted : localeCompare(x.date, sorted[i].date) <= 0 }
      n == IF before = {} THEN 0 ELSE CHOOSE i \in before : \A j \in before : j <= i
  IN SubSeq(sorted, 1, n) \o <<x>> \o SubSeq(sorted, n + 1, Len(sorted))

SortByDateKeepsOrder(list) == list

\* list.sort((a, b) => b.date.localeCompare(a.date)): a stable sort, latest date first
RECURSIVE SortByDate(_)
SortByDate(list) ==
  IF list = <<>> THEN <<>>
  ELSE InsertByDate(SortByDate(SubSeq(list, 1, Len(list) - 1)), list[Len(list)])

LedgerRes(op, kind, babyId, remote, raised, list) ==
  [n |-> 1 - ledger.res.n, op |-> op, kind |-> kind, babyId |-> babyId, remote |-> remote,
   raised |-> raised, list |-> list]

\* the orders in which the remote may return the documents of one baby, latest date first
RemoteOrders(docs) ==
  { o \in [1..Cardinality(docs) -> docs] :
      /\ \A i, j \in DOMAIN o : i # j => o[i] # o[j]
      /\ \A i \in 1..(Len(o) - 1) : localeCompare(o[i].date, o[i + 1].date) >= 0 }

\* addGrowthRecord(rec)/addMilestone(rec) without a database: throws
AddLedgerNoCloud(kind, rec) ==
  /\ ~db
  /\ ledger' = [ledger EXCEPT !.res = LedgerRes("add", kind, rec.babyId, "none", "offline", <<>>)]
  /\ UNCHANGED <<coreVars, agg, quick>>

\* addGrowthRecord(rec)/addMilestone(rec) up to the await of collection.add
AddLedgerStart(kind, rec) ==
  /\ db
  /\ Len(ledger.calls) < MaxCalls
  /\ ledger.nid < MaxAdds
  /\ ledger' = [ledger EXCEPT !.calls = Append(@, [op |-> "add", kind |-> kind, rec |-> rec,
                                                   babyId |-> rec.babyId]),
                              !.nid = @ + 1]
  /\ UNCHANGED <<coreVars, agg, quick>>

\* the add resolves: toSave.id = String(res._id); list.unshift; list.sort; setStorageSync
AddLedgerThen(i) ==
  /\ i \in DOMAIN ledger.calls
  /\ ledger.calls[i].op = "add"
  /\ LET c == ledger.calls[i]
         k == c.kind
         b == c.babyId
         newId == 1 + Cardinality(UNION { ledger.cloud[kk] : kk \in Kinds })
         toSave == [c.rec EXCEPT !.id = newId]
     IN ledger' = [ledger EXCEPT
                     !.cloud[k] = @ \cup {[c.rec EXCEPT !._id = newId]},
                     !.cache[k][b] = SortByDate(Unshift(@, toSave)),
                     !.added[k][b] = @ \cup {toSave},
                     !.calls = RemoveAt(@, i),
                     !.res = LedgerRes("add", k, b, "ok", "", <<toSave>>)]
  /\ UNCHANGED <<coreVars, agg, quick>>

\* the add rejects: throws, nothing is stored
AddLedgerCatch(i) ==
  /\ i \in DOMAIN ledger.calls
  /\ ledger.calls[i].op = "add"
  /\ ledger' = [ledger EXCEPT
                  !.calls = RemoveAt(@, i),
                  !.res = LedgerRes("add", ledger.calls[i].kind, ledger.calls[i].babyId,
                                    "failed", "save failed", <<>>)]
  /\ UNCHANGED <<coreVars, agg, quick>>

\* listGrowthRecords(babyId)/listMilestones(babyId) without a database
ListLedgerLocal(kind, babyId) ==
  /\ ~db
  /\ ledger' = [ledger EXCEPT
                  !.res = LedgerRes("list", kind, babyId, "none", "", ledger.cache[kind][babyId])]
  /\ UNCHANGED <<coreVars, agg, quick>>

\* listGrowthRecords(babyId)/listMilestones(babyId) up to the await of the query
ListLedgerStart(kind, babyId) ==
  /\ db
  /\ Len(ledger.calls) < MaxCalls
  /\ ledger' = [ledger EXCEPT !.calls = Append(@, [op |-> "list", kind |-> kind, rec |-> <<>>,
                                                   babyId |-> babyId])]
  /\ UNCHANGED <<coreVars, agg, quick>>

\* the query resolves: res.data is returned, the cache is not touched
ListLedgerThen(i) ==
  /\ i \in DOMAIN ledger.calls
  /\ ledger.calls[i].op = "list"
  /\ LET c == ledger.calls[i]
         docs == { d \in ledger.cloud[c.kind] : d.babyId = c.babyId }
     IN \E o \in RemoteOrders(docs) :
          ledger' = [ledger EXCEPT
                       !.calls = RemoveAt(@, i),
                       !.res = LedgerRes("list", c.kind, c.babyId, "ok", "", o)]
  /\ UNCHANGED <<coreVars, agg, quick>>

\* the query rejects: the local cache is returned
ListLedgerCatch(i) ==
  /\ i \in DOMAIN ledger.calls
  /\ ledger.calls[i].op = "list"
  /\ LET c == ledger.calls[i]
     IN ledger' = [ledger EXCEPT
                     !.calls = RemoveAt(@, i),
                     !.res = LedgerRes("list", c.kind, c.babyId, "failed", "",
                                       ledger.cache[c.kind][c.babyId])]
  /\ UNCHANGED <<coreVars, agg, quick>>

\* the device loses or regains the cloud capability between two launches
LedgerCloudChanges ==
  /\ ledger.calls = <<>>
  /\ db' = ~db
  /\ UNCHANGED <<watchOK, cloudEvents, cloudRefl, localEvents, localRefl, listeners,
                 watchers, calls, pushes, got, done, qres, started, nlid>>
  /\ UNCHANGED <<regVars, shVars>>

InitLedger ==
  /\ InitEvents
  /\ ~watchOK
  /\ InitProfile
  /\ agg = NoAgg
  /\ ledger = NoLedger
  /\ quick = NoQuick

NextLedger ==
  \/ \E k \in Kinds : \E rec \in LedgerInputs(k) :
        AddLedgerNoCloud(k, rec) \/ AddLedgerStart(k, rec)
  \/ \E k \in Kinds, b \in Subjects : ListLedgerLocal(k, b) \/ ListLedgerStart(k, b)
  \/ \E i \in 1..MaxCalls :
        AddLedgerThen(i) \/ AddLedgerCatch(i) \/ ListLedgerThen(i) \/ ListLedgerCatch(i)
  \/ LedgerCloudChanges

SpecLedger == InitLedger /\ [][NextLedger]_vars

(* ---- the quick-action configuration ---- *)
MaxEdits == 3   \* setQuickActions calls per run

QuickAction(type) == [type |-> type, label |-> type]
EventTypes == <<"feed", "drink", "pee", "poop", "sleep", "wake">>
\* the defaults of getQuickActions, in their order
QuickDefaults == [i \in 1..6 |-> QuickAction(EventTypes[i])]

\* the lists a page hands to setQuickActions directly: no kind twice
QuickLists ==
  { <<>>, <<QuickAction("feed")>>, <<QuickAction("sleep")>>,
    <<QuickAction("feed"), QuickAction("sleep")>>,
    <<QuickAction("sleep"), QuickAction("feed")>> }

\* Array.isArray(list) && list.length
QuickHit(q, babyId) == q.stored[babyId].has /\ Len(q.stored[babyId].list) > 0

\* getQuickActions(babyId): the stored list, or the defaults, which it then stores
getQuickActions(q, babyId) ==
  LET hit == QuickHit(q, babyId)
  IN [q EXCEPT
        !.stored[babyId] = IF hit THEN @ ELSE [has |-> TRUE, list |-> QuickDefaults],
        !.prev = q.res,
        !.res = [op |-> "get", babyId |-> babyId,
                 list |-> (IF hit THEN q.stored[babyId].list ELSE QuickDefaults),
                 defaults |-> ~hit]]

\* setQuickActions(babyId, actions)
setQuickActions(q, babyId, actions) ==
  [q EXCEPT
     !.stored[babyId] = [has |-> TRUE, list |-> actions],
     !.ever[babyId] = TRUE,
     !.prev = q.res,
     !.res = [op |-> "set", babyId |-> babyId, list |-> actions, defaults |-> FALSE],
     !.n = @ + 1]

\* actions.splice(at, 0, x), at counted from 0
InsertAt(list, at, x) == SubSeq(list, 1, at) \o <<x>> \o SubSeq(list, at + 1, Len(list))

\* a page reads the configuration of a baby
GetQuickActions(babyId) ==
  /\ quick' = getQuickActions(quick, babyId)
  /\ UNCHANGED <<coreVars, agg, ledger>>

\* a page stores a list
SetQuickActions(babyId, actions) ==
  /\ quick.n < MaxEdits
  /\ quick' = setQuickActions(quick, babyId, actions)
  /\ UNCHANGED <<coreVars, agg, ledger>>

\* removeAction: read, splice(index, 1), store, reload
RemoveAction(babyId, index) ==
  /\ quick.n < MaxEdits
  /\ LET q1 == getQuickActions(quick, babyId)
         actions == q1.res.list
     IN /\ index + 1 \in DOMAIN actions
        /\ quick' = getQuickActions(setQuickActions(q1, babyId, RemoveAt(actions, index + 1)),
                                    babyId)
  /\ UNCHANGED <<coreVars, agg, ledger>>

\* updateActionOrder: read, take the action of the type out, put it one place
\* up, one place down or first, store, reload
UpdateActionOrder(babyId, type, direction) ==
  /\ quick.n < MaxEdits
  /\ LET q1 == getQuickActions(quick, babyId)
         actions == q1.res.list
         found == { i \in DOMAIN actions : actions[i].type = type }
     IN /\ found # {}
        /\ LET index == (CHOOSE i \in found : \A j \in found : i <= j) - 1
               rest == RemoveAt(actions, index + 1)
               max0 == IF index - 1 > 0 THEN index - 1 ELSE 0
               minL == IF index + 1 < Len(rest) THEN index + 1 ELSE Len(rest)
               moved == CASE direction = "up" -> InsertAt(rest, max0, actions[index + 1])
                          [] direction = "down" -> InsertAt(rest, minL, actions[index + 1])
                          [] OTHER -> Unshift(rest, actions[index + 1])
           IN quick' = getQuickActions(setQuickActions(q1, babyId, moved), babyId)
  /\ UNCHANGED <<coreVars, agg, ledger>>

InitQuick ==
  /\ InitEvents
  /\ ~watchOK
  /\ InitProfile
  /\ agg = NoAgg
  /\ ledger = NoLedger
  /\ quick = NoQuick

NextQuick ==
  \/ \E b \in Subjects : GetQuickActions(b)
  \/ \E b \in Subjects, actions \in QuickLists : SetQuickActions(b, actions)
  \/ \E b \in Subjects, index \in 0..5 : RemoveAction(b, index)
  \/ \E b \in Subjects, i \in 1..6, direction \in {"up", "down", "top"} :
        UpdateActionOrder(b, EventTypes[i], direction)

SpecQuick == InitQuick /\ [][NextQuick]_vars

(* ---- two users: one owns a baby and records, the other joins and watches ---- *)
\* the id of a baby as the event store keys it
SubjectOf(id) == IF id = <<"a">> THEN "b1" ELSE "b2"

HeldAsMember(id) ==
  \E k \in DOMAIN listBabies(babiesRaw) :
     listBabies(babiesRaw)[k].id = id /\ listBabies(babiesRaw)[k].role = "member"

\* the page of a baby this user has joined subscribes to its events
WatchJoined(id, opened) ==
  /\ HeldAsMember(id)
  /\ WatchEvents(SubjectOf(id), opened)

\* the owner's addEvent, as this user's side sees it: the document is in the
\* remote collection and the remote pushes the new snapshot to the watchers
\* this user has open for the baby; the owner's cache and listener array are
\* on the owner's device
OtherAddEvent(rec) ==
  LET m == Cardinality(cloudEvents) + 1
      b == rec.babyId
      toSave == [rec EXCEPT !._id = m]
      cloud2 == cloudEvents \cup {toSave}
  IN /\ m \in Muts
     /\ \E i \in DOMAIN listeners : listeners[i].babyId = b
     /\ cloudEvents' = cloud2
     /\ cloudRefl' = [cloudRefl EXCEPT ![b] = @ \cup {m}]
     /\ \E d \in DescOrders({ e \in cloud2 : e.babyId = b }) :
          pushes' = pushes \cup PushesAfter(b, m, d, cloudRefl'[b])
     /\ UNCHANGED <<profVars, db, watchOK, localEvents, localRefl, listeners, watchers, calls,
                    got, done, qres, started, nlid>>

\* the watcher fails (onError, which the code ignores): it is closed, the
\* registration stays, nothing opens a new watcher
WatcherOnError(lid) ==
  /\ lid \in watchers
  /\ watchers' = watchers \ {lid}
  /\ UNCHANGED <<profVars, db, watchOK, cloudEvents, cloudRefl, localEvents, localRefl,
                 listeners, calls, pushes, got, done, qres, started, nlid>>

InitEndToEnd ==
  /\ InitEvents
  /\ db
  /\ InitProfile
  /\ agg = NoAgg
  /\ ledger = NoLedger
  /\ quick = NoQuick

\* the baby of the scenario
SharedIds == {<<"a">>}

NextEndToEnd ==
  \/ \E t \in Instants : Tick(t)
  \/ \E id \in SharedIds : OtherUpsertBaby(Baby(id, "Bo", Undefined))
  \/ \E id \in SharedIds : invitations = {} /\ OtherCreateInvitation(id, CodeOf(id))
  \/ \E id \in SharedIds : ConfirmJoinFamily(CodeOf(id))
  \/ \E i \in DOMAIN jobs : ConfirmJoinInvalid(i)
  \/ \E i \in DOMAIN jobs : ConfirmJoinFound(i)
  \/ \E i \in DOMAIN jobs : ConfirmJoinBaby(i)
  \/ \E i \in DOMAIN jobs : ConfirmJoinAlready(i)
  \/ \E i \in DOMAIN jobs : ConfirmJoinNew(i)
  \/ \E i \in DOMAIN jobs : ConfirmJoinThen(i)
  \/ \E i \in DOMAIN jobs : ConfirmJoinCatch(i)
  \/ \E id \in SharedIds, opened \in BOOLEAN : WatchJoined(id, opened)
  \/ \E i \in DOMAIN calls : ServeQuery(i)
  \/ \E i \in DOMAIN calls : ListEventsThen(i)
  \/ \E i \in DOMAIN calls : ListEventsCatch(i)
  \/ \E rec \in WatchInputs : OtherAddEvent(rec)
  \/ \E p \in pushes : WatcherOnChange(p)
  \/ \E p \in pushes : WatcherClosed(p)
  \/ \E lid \in Lids : WatcherOnError(lid)

\* the remote delivers what it has pushed to a watcher
Delivers == \E p \in pushes : WatcherOnChange(p) \/ WatcherClosed(p)

\* pushes are delivered, and the query of a subscription's first load settles
SpecEndToEnd ==
  /\ InitEndToEnd
  /\ [][NextEndToEnd]_vars
  /\ WF_vars(Delivers)
  /\ \A i \in 1..MaxCalls : WF_vars(Settles(i))

(* ---- updateEvent with every field edited ---- *)
\* the events the stores hold as a page edits one: a feed and a sleep
EditStored ==
  { [_id |-> 1, babyId |-> "b1", type |-> "feed", timestamp |-> 1, quantity |-> 120,
     durationMinutes |-> Absent, notes |-> "n"],
    [_id |-> 2, babyId |-> "b1", type |-> "sleep", timestamp |-> 2, quantity |-> Absent,
     durationMinutes |-> 30, notes |-> ""] }

\* the record the edit form hands to updateEvent: the event it was shown with
\* its fields set anew, quantity and durationMinutes possibly left out
EditInputs ==
  { [_id |-> e._id, babyId |-> e.babyId, type |-> ty, timestamp |-> t, quantity |-> q,
     durationMinutes |-> d, notes |-> n] :
     e \in EditStored, ty \in {"feed", "sleep"}, t \in {1, 3}, q \in {Absent, 90},
     d \in {Absent, 45}, n \in {"", "z"} }

\* the cache holds some of the remote's events, in any order
InitEdit ==
  /\ InitRegistry
  /\ db \in BOOLEAN
  /\ watchOK = FALSE
  /\ cloudRefl = [b \in Subjects |-> {}]
  /\ localRefl = [b \in Subjects |-> {}]
  /\ listeners = <<>>
  /\ watchers = {}
  /\ calls = <<>>
  /\ pushes = {}
  /\ got = [l \in Lids |-> NoneGot]
  /\ done = NoDone
  /\ qres = NoRes
  /\ started = 0
  /\ nlid = 0
  /\ cloudEvents = EditStored
  /\ \E S \in SUBSET EditStored : \E o \in Orders(S) :
       localEvents = [b \in Subjects |-> IF b = "b1" THEN o ELSE <<>>]

NextEdit ==
  \/ \E rec \in EditInputs : UpdateEventLocal(rec)
  \/ \E rec \in EditInputs : UpdateEventStart(rec)
  \/ \E i \in DOMAIN calls : UpdateEventThen(i)
  \/ \E i \in DOMAIN calls : UpdateEventCatch(i)
  \/ \E i \in DOMAIN calls : ServeQuery(i)
  \/ \E i \in DOMAIN calls : ListEventsThen(i)
  \/ \E i \in DOMAIN calls : ListEventsCatch(i)

SpecEdit == InitEdit /\ [][NextEdit]_vars

(* ---- listEvents over a range, with a cache that differs from the remote ---- *)
\* events of one baby around the bounds of the range a page asks for
QueryEvents ==
  { [_id |-> t, babyId |-> "b1", type |-> "feed", timestamp |-> t, quantity |-> 120,
     durationMinutes |-> Absent, notes |-> ""] : t \in 1..4 }

\* (startTs, endTs) as stats.ts builds them, and with one or both bounds omitted
QueryRanges == {<<2, 3>>, <<2, 0>>, <<0, 3>>, <<0, 0>>, <<3, 3>>}

\* the cache holds any of the events in any order; the remote holds one event
\* the cache does not have
InitQuery ==
  /\ InitRegistry
  /\ db = TRUE
  /\ watchOK = FALSE
  /\ cloudRefl = [b \in Subjects |-> {}]
  /\ localRefl = [b \in Subjects |-> {}]
  /\ listeners = <<>>
  /\ watchers = {}
  /\ calls = <<>>
  /\ pushes = {}
  /\ got = [l \in Lids |-> NoneGot]
  /\ done = NoDone
  /\ qres = NoRes
  /\ started = 0
  /\ nlid = 0
  /\ cloudEvents = { [e EXCEPT !._id = 9] : e \in { x \in QueryEvents : x.timestamp = 2 } }
  /\ \E S \in SUBSET QueryEvents : \E o \in Orders(S) :
       localEvents = [b \in Subjects |-> IF b = "b1" THEN o ELSE <<>>]

NextQuery ==
  \/ \E b \in Subjects, r \in QueryRanges : ListEventsStart(b, r[1], r[2])
  \/ \E i \in DOMAIN calls : ServeQuery(i)
  \/ \E i \in DOMAIN calls : ListEventsThen(i)
  \/ \E i \in DOMAIN calls : ListEventsCatch(i)

SpecQuery == InitQuery /\ [][NextQuery]_vars

\* the stores as a wake is about to be recorded: the cache holds some of the
\* subject's remote records, in any order
InitSleep ==
  /\ InitRegistry
  /\ db \in BOOLEAN
  /\ watchOK = FALSE
  /\ cloudRefl = [b \in Subjects |-> {}]
  /\ localRefl = [b \in Subjects |-> {}]
  /\ listeners = <<>>
  /\ watchers = {}
  /\ calls = <<>>
  /\ pushes = {}
  /\ got = [l \in Lids |-> NoneGot]
  /\ done = NoDone
  /\ qres = NoRes
  /\ started = 0
  /\ nlid = 0
  /\ cloudEvents \in SleepStores
  /\ localEvents \in [Subjects -> UNION { Orders(S) : S \in SUBSET cloudEvents }]
  /\ \A b \in Subjects : \A i \in DOMAIN localEvents[b] : localEvents[b][i].babyId = b

NextSleep ==
  \/ \E wake \in WakeInputs : LinkSleepAndWakeNoWake(wake)
  \/ \E wake \in WakeInputs : LinkSleepAndWake(wake)
  \/ \E wake \in WakeInputs : LinkSleepAndWakeLocal(wake)
  \/ \E i \in DOMAIN calls : LinkQueryThen(i)
  \/ \E i \in DOMAIN calls : LinkQueryCatch(i)
  \/ \E i \in DOMAIN calls : UpdateEventThen(i)
  \/ \E i \in DOMAIN calls : UpdateEventCatch(i)
  \/ \E i \in DOMAIN calls : ServeQuery(i)
  \/ \E i \in DOMAIN calls : ListEventsThen(i)
  \/ \E i \in DOMAIN calls : ListEventsCatch(i)

SpecSleep == InitSleep /\ [][NextSleep]_vars

(* ======================= the claims ======================= *)
Registered(l, b) == \E i \in DOMAIN listeners : listeners[i].lid = l /\ listeners[i].babyId = b
NotifyCount(cs) ==
  Cardinality({ i \in DOMAIN cs : cs[i].op = "query" /\ cs[i].cont = "notify" })
NotifyPending(cs, b, m) ==
  \E i \in DOMAIN cs :
     cs[i].op = "query" /\ cs[i].cont = "notify" /\ cs[i].babyId = b /\ cs[i].mut = m
\* the states right after a successful addEvent: no other call completed since
JustAppended == done.op = "add" /\ done.ok

\* C1 as stated (refuted): right after a successful append of e for subject S,
\* query(S) without bounds, answered by the remote or by the cache fallback,
\* holds exactly one event equal to e with the ids left aside.
C1_OnceIdsAside ==
  JustAppended =>
    LET e == done.rec
        same(x) == SansId(x) = SansId(e)
    IN /\ \A d \in DescOrders(RemoteMatch(e.babyId, 0, 0)) : CountWhere(d, same) = 1
       /\ CountWhere(LocalQuery(e.babyId, 0, 0), same) = 1

\* C1 as amended: right after a successful append of e for subject S, query(S)
\* without bounds, answered by the remote or by the cache fallback, holds
\* exactly one event with the id the append returned, and it equals e.
C1_OnceById ==
  JustAppended =>
    LET e == done.rec
        byId(x) == x._id = e._id
    IN /\ \A d \in DescOrders(RemoteMatch(e.babyId, 0, 0)) :
            CountWhere(d, byId) = 1 /\ \E k \in DOMAIN d : d[k] = e
       /\ LET l == LocalQuery(e.babyId, 0, 0)
          IN CountWhere(l, byId) = 1 /\ \E k \in DOMAIN l : l[k] = e

\* an append has just succeeded for a subject that already held an event
C1_Witness == JustAppended /\ Len(localEvents[done.babyId]) >= 2 /\ db

\* C2 as stated (refuted by the cache fallback): every list a query returns
\* is sorted by timestamp descending.
C2_QuerySortedDesc == IsSortedDesc(qres.list)

\* C3: a successful add, update or delete for subject S makes every
\* registration for S receive a snapshot from the bus in the end, unless it is
\* cancelled first; the bus calls no registration made for another subject;
\* a call that fails issues no notification and invokes no callback.
C3_NotifyOnSuccess ==
  /\ [][(done'.n # done.n /\ done'.ok /\ done'.why = "") =>
          \A l \in Lids :
             Registered(l, done'.babyId) =>
                \/ got'[l].bus[done'.n] = 1 /\ got'[l].last.babyId = done'.babyId
                \/ NotifyPending(calls', done'.babyId, done'.n)]_vars
  /\ \A l \in Lids, m \in Muts, b \in Subjects :
        (NotifyPending(calls, b, m) /\ Registered(l, b))
          ~> (got[l].bus[m] >= 1 \/ ~Registered(l, b))
  /\ [](\A l \in Lids : got[l].last.src = "bus" => got[l].last.babyId = got[l].sub)
  /\ [][(done'.n # done.n /\ ~done'.ok) =>
          (got' = got /\ pushes' = pushes /\ NotifyCount(calls') <= NotifyCount(calls))]_vars

\* a registration has been called by the bus for a mutation of its subject
C3_Witness ==
  \E l \in Lids, m \in Muts :
     got[l].bus[m] = 1 /\ Registered(l, got[l].sub) /\ got[l].last.mut = m

\* C4 as stated (refuted when the watcher is open): per completed mutation a
\* registration's callback runs at most once, pushes of the remote included.
C4_AtMostOncePerChange ==
  \A l \in Lids, m \in Muts : got[l].bus[m] + got[l].push[m] <= 1

\* C4 as amended: per completed mutation the bus invokes a registration's
\* callback at most once; the remote's push of the same change is a further
\* invocation.
C4_BusAtMostOnce == \A l \in Lids, m \in Muts : got[l].bus[m] <= 1

\* one mutation reached a registration by the bus and by the watcher
C4_Witness == \E l \in Lids, m \in Muts : got[l].bus[m] = 1 /\ got[l].push[m] = 1

\* C5 as stated (refuted): a notification never hands a registration a
\* snapshot that lacks a mutation an earlier notification's snapshot held.
C5_InOrder ==
  [][\A l \in Lids :
        (got[l].last.src = "bus" /\ got'[l].last.src = "bus" /\ got'[l].bus # got[l].bus)
          => got[l].last.refl \subseteq got'[l].last.refl]_vars

\* C6 as stated (refuted): an append that met an unavailable or failing remote
\* is in the local cache afterwards.
C6_NoWriteLost ==
  (done.op = "add" /\ ~done.ok) =>
     \E k \in DOMAIN localEvents[done.babyId] :
        SansId(localEvents[done.babyId][k]) = SansId(done.rec)

C8_ListDedup ==
  listed # NotListed =>
    /\ \A i, j \in DOMAIN listed : i # j => listed[i].id # listed[j].id
    /\ \A i \in DOMAIN listed :
         /\ listed[i].id # <<>>
         /\ \E k \in DOMAIN babiesRaw :
              /\ Trimmed(babiesRaw[k].id) = listed[i].id
              /\ \A j \in 1..(k - 1) : Trimmed(babiesRaw[j].id) # listed[i].id
              /\ listed[i] = Listed(babiesRaw[k], listed[i].id)

\* a stored list with a repeated id has been listed
C8_Witness ==
  /\ listed # NotListed
  /\ Len(listed) = 1
  /\ Len(babiesRaw) = 2
  /\ babiesRaw[1].id = <<" ", "a">> /\ babiesRaw[2].id = <<"a">>
  /\ babiesRaw[1].name # babiesRaw[2].name

\* C9: a step of syncBabies leaves a baby that was member before it and is
\* still listed a member, whatever it fetched.
C9_MemberStays ==
  \A id \in syncLog.members : RoleOf(babiesRaw, id) \in {"none", "member"}

\* C9 as the code has it: a member stays member unless the babies fetched as
\* created by the caller contain it undeleted, and then it becomes owner; the
\* document fetched for a member never changes the role.
C9_MemberStaysUnlessOwned ==
  \A id \in syncLog.members :
     IF syncLog.step = "owned" /\ id \in syncLog.fetched
     THEN RoleOf(babiesRaw, id) = "owner"
     ELSE RoleOf(babiesRaw, id) \in {"none", "member"}

\* the document of a member was fetched and merged: the member is still
\* listed, now with the name and creator the document has
C9_Witness ==
  /\ syncLog.step = "member"
  /\ \E id \in syncLog.members \cap syncLog.fetched :
       LET list == listBabies(babiesRaw)
       IN /\ RoleOf(babiesRaw, id) = "member"
          /\ list[FindBaby(list, id)].name = "Cy"
          /\ list[FindBaby(list, id)].openid = "other"

\* C10: confirmJoinFamily succeeds only with an active invitation of that code
\* whose expiresAt is later than the clock at the call, expiresAt being 30
\* minutes after the issue; it turns a code down exactly when the invitations
\* it looked at hold none such (so one millisecond before expiresAt the code
\* passes, at expiresAt and after it does not); turning a code down is a
\* failure result, not an exception, and adds no join record.
C10_RedeemWhileValid ==
  /\ [](joinRes.success =>
          \E inv \in invitations :
             inv.code = joinRes.code /\ inv.status = "active" /\ inv.expiresAt > joinRes.at)
  /\ [](\A inv \in invitations : inv.expiresAt = inv.createdAt + 1800000)
  /\ [](joinRes.checked =>
          (joinRes.why = "invalid" <=>
             ~\E inv \in joinRes.seen :
                 inv.code = joinRes.code /\ inv.status = "active" /\ joinRes.at < inv.expiresAt))
  /\ [](joinRes.why = "invalid" => ~joinRes.success /\ ~joinRes.raised)
  /\ [][(joinRes' # joinRes /\ ~joinRes'.success) => joinRequests' = joinRequests]_vars

\* a code was redeemed one millisecond before its invitation expired
C10_Witness ==
  /\ joinRes.success
  /\ joinRes.why = "joined"
  /\ \E inv \in joinRes.seen : inv.code = joinRes.code /\ joinRes.at = inv.expiresAt - 1
  /\ \A inv \in joinRes.seen : inv.code = joinRes.code => joinRes.at = inv.expiresAt - 1
  /\ \E r \in joinRequests : r.babyId = joinRes.babyId

(* ---- C11 ---- *)
\* this user's join records of a baby
OwnJoins(babyId) == { r \in joinRequests : r.babyId = babyId /\ r.userId = "me" }

\* C11: redeeming is idempotent for a user. A redemption that finds the user's
\* join record of the baby never goes on to add one; a redemption that answers
\* "already joined" is a success that names the baby and adds no record; and
\* when redemptions run one after the other (one call in flight) the user
\* never has more than one join record of a baby.
C11_RedeemIdempotent ==
  /\ [](MaxJobs = 1 => \A id \in BabyIds : Cardinality(OwnJoins(id)) <= 1)
  /\ [][/\ \A i \in DOMAIN jobs :
              ((/\ jobs[i].op = "findJoin"
                /\ OwnJoins(jobs[i].id) # {}
                /\ Len(jobs') = Len(jobs))
               => jobs'[i].op # "addJoin")
         /\ ((joinRes' # joinRes /\ joinRes'.why = "already")
              => (/\ joinRequests' = joinRequests
                  /\ joinRes'.success
                  /\ joinRes'.babyId \in BabyIds
                  /\ FindBaby(babiesRaw', joinRes'.babyId) # 0))]_vars

\* a second redemption found the user's own record and answered "already joined"
C11_Witness ==
  /\ ~joinReadAll
  /\ joinRes.why = "already"
  /\ joinRes.success
  /\ Cardinality(OwnJoins(joinRes.babyId)) = 1

(* ---- C12 ---- *)
\* C12: a redemption that succeeds for a user who had no join record of the
\* baby leaves that user exactly one join record of it, approved, and the saved
\* baby is listed as member.
C12_RedeemInsertsApproved ==
  [][(/\ joinRes' # joinRes
      /\ joinRes'.success
      /\ OwnJoins(joinRes'.babyId) = {})
     => LET mine == { r \in joinRequests' : r.babyId = joinRes'.babyId /\ r.userId = "me" }
        IN /\ Cardinality(mine) = 1
           /\ \A r \in mine : r.status = "approved"
           /\ \E b \in Range(listBabies(babiesRaw')) :
                 b.id = joinRes'.babyId /\ b.role = "member"]_vars

(* ---- C13 ---- *)
\* d is ms / 60000 rounded to the nearest whole number, halves up
IsRounded(d, ms) == (2 * d - 1) * Minute <= 2 * ms /\ 2 * ms < (2 * d + 1) * Minute

\* this step hands the sleep e to updateEvent with a duration that is the
\* rounded distance to the wake w: the remote update is sent, or, without a
\* database, the cache entry is rewritten
PairedNow(e, w) ==
  IF db
  THEN /\ calls' # <<>>
       /\ LET c == calls'[Len(calls')]
          IN /\ c.op = "update"
             /\ c.rec = [e EXCEPT !.durationMinutes = c.rec.durationMinutes]
             /\ IsRounded(c.rec.durationMinutes, w.timestamp - e.timestamp)
       /\ Cardinality({ k \in DOMAIN calls' : calls'[k].op = "update" })
            = Cardinality({ k \in DOMAIN calls : calls[k].op = "update" }) + 1
  ELSE \E k \in DOMAIN localEvents'[e.babyId] :
         LET f == localEvents'[e.babyId][k]
         IN /\ f = [e EXCEPT !.durationMinutes = f.durationMinutes]
            /\ IsRounded(f.durationMinutes, w.timestamp - e.timestamp)

\* this step sends no update and leaves the stored events as they are
NothingPaired ==
  /\ cloudEvents' = cloudEvents
  /\ localEvents' = localEvents
  /\ Cardinality({ k \in DOMAIN calls' : calls'[k].op = "update" })
       = Cardinality({ k \in DOMAIN calls : calls[k].op = "update" })

\* the update of a pairing went through in this step: the document (with a
\* database) and the cache entry of that id carry the duration that was sent
UpdateLanded ==
  (done' # done /\ done'.op = "update" /\ done'.ok /\ done'.rec.type = "sleep")
  => /\ \A e \in cloudEvents' : (db /\ e._id = done'.rec._id)
                                  => e.durationMinutes = done'.rec.durationMinutes
     /\ \A b \in Subjects : \A k \in DOMAIN localEvents'[b] :
          localEvents'[b][k]._id = done'.rec._id
            => localEvents'[b][k].durationMinutes = done'.rec.durationMinutes

\* C13 as stated: whenever the pairing selects a sleep of the subject without a
\* duration in the 24 hours before the wake, that sleep is given the rounded
\* distance in minutes, whatever it is; a selected sleep whose duration is set
\* is not altered.
C13_PairsWithRounded ==
  [][/\ (link' # link /\ link'.sleep # NoRec /\ link'.sleep.durationMinutes = Absent)
          => PairedNow(link'.sleep, link'.wake)
     /\ (link' # link /\ link'.sleep # NoRec /\ link'.sleep.durationMinutes > 0)
          => NothingPaired
     /\ UpdateLanded]_vars

\* C13, amended: the selected sleep is of the wake's subject and at most 24
\* hours before the wake; when it has no duration (unset or 0) and the distance
\* rounds to at least one minute, it is given that many minutes (45 for 45
\* minutes), and when the distance rounds to 0 nothing is written; a selected
\* sleep whose duration is set is not altered.
C13_PairsWithPositiveRounded ==
  [][/\ (link' # link /\ link'.sleep # NoRec)
          => /\ link'.sleep.babyId = link'.wake.babyId
             /\ link'.sleep.type = "sleep"
             /\ link'.sleep.timestamp < link'.wake.timestamp
             /\ link'.wake.timestamp <= link'.sleep.timestamp + Day
     /\ (/\ link' # link /\ link'.sleep # NoRec
         /\ link'.sleep.durationMinutes \in {Absent, 0}
         /\ 2 * (link'.wake.timestamp - link'.sleep.timestamp) >= Minute)
          => PairedNow(link'.sleep, link'.wake)
     /\ (/\ link' # link /\ link'.sleep # NoRec
         /\ link'.sleep.durationMinutes \in {Absent, 0}
         /\ 2 * (link'.wake.timestamp - link'.sleep.timestamp) < Minute)
          => NothingPaired
     /\ (link' # link /\ link'.sleep # NoRec /\ link'.sleep.durationMinutes > 0)
          => NothingPaired
     /\ UpdateLanded]_vars

\* the sleep at t0 was given 45 minutes by the wake at t0 + 45 min, and the
\* wake at t0 + 90 min then selected it and left it alone
C13_Witness ==
  /\ link.n = 2
  /\ link.wake.timestamp = link.sleep.timestamp + 90 * Minute
  /\ link.sleep.durationMinutes = 45
  /\ ~link.updates
  /\ done.op = "update" /\ done.ok /\ done.rec._id = link.sleep._id
  /\ \E e \in cloudEvents : e._id = link.sleep._id /\ e.durationMinutes = 45

(* ---- C14 ---- *)
\* the sleeps of the wake's subject in the 24 hours before it, in a set of events
Candidates(S, w) ==
  { e \in S : /\ e.babyId = w.babyId
              /\ e.type = "sleep"
              /\ e.timestamp >= w.timestamp - Day
              /\ e.timestamp < w.timestamp }
Latest(S) == { e \in S : \A f \in S : f.timestamp <= e.timestamp }
Unset(S) == { e \in S : e.durationMinutes \in {Absent, 0} }

C15_UpsertOptimistic ==
  [][(upsertRes' # upsertRes)
     => LET b == upsertRes'.baby
        IN /\ upsertRes'.remote \in {"pending", "unavailable"}
                => FindBaby(listBabies(babiesRaw'), Trimmed(b.id)) > 0
           /\ upsertRes'.remote = "pending" => db
           /\ upsertRes'.remote = "unavailable" => ~db /\ ~upsertRes'.returned
           /\ upsertRes'.remote \in {"set", "failed"} => babiesRaw' = babiesRaw
           /\ upsertRes'.remote = "set" => upsertRes'.returned
           /\ upsertRes'.remote # "pending" =>
                IF upsertRes'.returned
                THEN /\ ~cloudBabies'[b.id].isDeleted
                     /\ [cloudBabies'[b.id].data EXCEPT !.openid = Undefined] = b
                ELSE cloudBabies' = cloudBabies]_vars

\* the remote set failed, upsert returned false, and the baby is still listed
C15_Witness ==
  /\ upsertRes.remote = "failed"
  /\ ~upsertRes.returned
  /\ cloudBabies[upsertRes.baby.id] = NoDoc
  /\ FindBaby(listBabies(babiesRaw), upsertRes.baby.id) > 0

(* ---- C16 ---- *)
\* the entries list() returns for an id
ListedAs(raw, id) == { k \in DOMAIN listBabies(raw) : listBabies(raw)[k].id = id }
\* an omitted avatar reads as the empty string
Shown(x) == IF x = Undefined THEN "" ELSE x

\* C16 as stated: right after upsert(subject), list() holds exactly one
\* subject with the input's id, and its name, avatar, gender, birthday and
\* creator info are the input's.
C16_RoundTrip ==
  [][(upsertRes' # upsertRes /\ upsertRes'.remote \in {"pending", "unavailable"})
     => LET b == upsertRes'.baby
            l == listBabies(babiesRaw')
        IN /\ Cardinality(ListedAs(babiesRaw', b.id)) = 1
           /\ \A k \in ListedAs(babiesRaw', b.id) :
                /\ l[k].name = b.name
                /\ l[k].avatarUrl = Shown(b.avatarUrl)
                /\ l[k].gender = b.gender
                /\ l[k].birthday = b.birthday
                /\ l[k].creatorInfo = b.creatorInfo]_vars

\* what list() shows of a field after upsert: the input's value if the input
\* has one, else what was listed before, else nothing
Kept(new, had, old) == IF new # Undefined THEN new ELSE IF had THEN old ELSE Undefined

\* C16, amended: for an id without surrounding blanks, right after
\* upsert(subject) list() holds exactly one subject with that id; each of
\* name, avatar, gender, birthday and creator info is the input's where the
\* input has the field, and is what was listed before (or absent, for a new
\* subject) where it has not; an empty or missing name of a new subject, and an
\* empty name given for a listed one, read as the default name.
C16_RoundTripOfGivenFields ==
  [][(/\ upsertRes' # upsertRes
      /\ upsertRes'.remote \in {"pending", "unavailable"}
      /\ Trimmed(upsertRes'.baby.id) = upsertRes'.baby.id)
     => LET b == upsertRes'.baby
            l == listBabies(babiesRaw')
            had == FindBaby(listBabies(babiesRaw), b.id) > 0
            old == IF had THEN listBabies(babiesRaw)[FindBaby(listBabies(babiesRaw), b.id)]
                   ELSE NoBaby
        IN /\ Cardinality(ListedAs(babiesRaw', b.id)) = 1
           /\ \A k \in ListedAs(babiesRaw', b.id) :
                /\ l[k].name = IF Kept(b.name, had, old.name) \in {Undefined, ""}
                               THEN DefaultName ELSE Kept(b.name, had, old.name)
                /\ l[k].avatarUrl = Shown(Kept(b.avatarUrl, had, old.avatarUrl))
                /\ l[k].gender = Kept(b.gender, had, old.gender)
                /\ l[k].birthday = Kept(b.birthday, had, old.birthday)
                /\ l[k].creatorInfo = Kept(b.creatorInfo, had, old.creatorInfo)]_vars

\* a listed baby with creator info was renamed by an upsert that gave the name
\* alone: the new name is listed, the creator info is the one from before
C16_Witness ==
  /\ upsertRes.remote \in {"pending", "unavailable"}
  /\ upsertRes.baby.name = "Bea"
  /\ upsertRes.baby.creatorInfo = Undefined
  /\ \E k \in ListedAs(babiesRaw, upsertRes.baby.id) :
       /\ listBabies(babiesRaw)[k].name = "Bea"
       /\ listBabies(babiesRaw)[k].creatorInfo = "dad"

(* ---- C17 ---- *)
\* C17: when a step removes from the list the baby that getCurrentBabyId()
\* returned, getCurrentBabyId() afterwards returns the first baby of the list,
\* or the empty string when the list is empty; never an id that is not listed.
C17_PointerFollowsRemoval ==
  [][(\E id \in BabyIds :
        /\ ListedAs(babiesRaw, id) # {}
        /\ ListedAs(babiesRaw', id) = {}
        /\ getCurrentBabyId(babiesRaw, current)[1] = id)
     => LET after == getCurrentBabyId(babiesRaw', current')[1]
            l == listBabies(babiesRaw')
        IN IF Len(l) > 0 THEN after = l[1].id ELSE after = <<>>]_vars

(* ---- C18 ---- *)
\* the entry list() has for id carries every field the remote document has
CarriesRemote(raw, id) ==
  \E k \in ListedAs(raw, id) :
     LET b == listBabies(raw)[k]
         d == cloudBabies[id].data
     IN /\ d.name # Undefined => b.name = d.name
        /\ d.avatarUrl # Undefined => b.avatarUrl = d.avatarUrl
        /\ d.gender # Undefined => b.gender = d.gender
        /\ d.birthday # Undefined => b.birthday = d.birthday
        /\ d.creatorInfo # Undefined => b.creatorInfo = d.creatorInfo
        /\ d.openid # Undefined => b.openid = d.openid

\* C18: once the babies the caller created have been fetched and processed,
\* no baby that was listed as owner when syncBabies began and is missing from
\* the fetched set, or deleted in it, is listed; and every baby of the fetched
\* set that is not deleted is listed, with the fields its document has.
C18_OwnerPass ==
  syncLog.step = "owned" =>
    /\ \A id \in syncLog.owners \ syncLog.fetched : ListedAs(babiesRaw, id) = {}
    /\ \A id \in syncLog.fetched :
         /\ cloudBabies[id] # NoDoc /\ ~cloudBabies[id].isDeleted
         /\ CarriesRemote(babiesRaw, id)
    /\ \A id \in BabyIds :
         (/\ cloudBabies[id] # NoDoc
          /\ cloudBabies[id].data.openid = "me"
          /\ ~cloudBabies[id].isDeleted) => id \in syncLog.fetched

\* the owner pass removed a baby the remote no longer has and took over the
\* name another device gave to one it has
C18_Witness ==
  /\ syncLog.step = "owned"
  /\ syncLog.owners \ syncLog.fetched # {}
  /\ \E id \in syncLog.fetched \cap syncLog.owners :
       /\ cloudBabies[id].data.name = "Abe"
       /\ \E k \in ListedAs(babiesRaw, id) : listBabies(babiesRaw)[k].name = "Abe"

(* ---- C19 ---- *)
RemoteGone(id) == cloudBabies[id] = NoDoc \/ cloudBabies[id].isDeleted

Asked(id) == \E i \in DOMAIN jobs : jobs[i].op = "syncMember" /\ jobs[i].id = id

\* C20: when the query for the owned babies has failed, every member baby of
\* the list is asked for all the same; when the get of one member baby has
\* failed, the gets of the other member babies of the pass are still under
\* way; and a get under way can always be answered and processed, so that
\* the pass ends.
C20_FailuresDoNotAbort ==
  /\ syncLog.step = "ownedFailed" =>
       /\ syncLog.pending = MemberIds(babiesRaw)
       /\ \A id \in syncLog.pending : Asked(id)
  /\ syncLog.step = "memberFailed" =>
       /\ \A id \in syncLog.pending : Asked(id)
       /\ ~Asked(syncLog.id) \/ syncLog.id \in syncLog.pending
  /\ \A i \in DOMAIN jobs :
       jobs[i].op = "syncMember" => ENABLED (SyncMemberThen(i) \/ SyncMemberNotFound(i))

\* after the get of one member baby failed, another member baby was fetched
\* and removed from the list because its document is deleted
C20_Witness ==
  /\ syncLog.step = "member"
  /\ syncLog.failed = "member"
  /\ cloudBabies[syncLog.id] # NoDoc
  /\ cloudBabies[syncLog.id].isDeleted
  /\ ListedAs(babiesRaw, syncLog.id) = {}
  /\ jobs = <<>>

(* ---- C21 ---- *)
\* C21: a member baby whose get fails with an error that is not "not found"
\* stays in the list, and the list is left as it was.
C21_OnlyNotFoundDeletes ==
  [][syncLog'.step = "memberFailed" => (babiesRaw' = babiesRaw /\ current' = current)]_vars

(* ---- C22 ---- *)
\* C22 as stated: when exitFamily returns true, no join record of the caller
\* for the baby is left and the baby is not listed; when a join record of the
\* caller is left, it returns false; when it returns false the list is as it was.
C22_ExitRemovesThenDeletes ==
  [][exitRes' # exitRes =>
       LET id == exitRes'.babyId
           mine == { r \in joinRequests' : r.babyId = id /\ r.userId = "me" }
       IN /\ exitRes'.success => (mine = {} /\ ListedAs(babiesRaw', id) = {})
          /\ mine # {} => ~exitRes'.success
          /\ ~exitRes'.success => (babiesRaw' = babiesRaw /\ current' = current)]_vars

\* C22, the part that holds: with a database, when exitFamily returns true the baby is not
\* listed and no join record of the caller that its query saw is left (none at
\* all when no other call was under way); when it returns false the list is
\* as it was. Without a database it returns true, the baby is not listed and
\* the join records are as they were.
C22_ExitWithRemote ==
  [][exitRes' # exitRes =>
       LET id == exitRes'.babyId
           mine == { r \in joinRequests' : r.babyId = id /\ r.userId = "me" }
       IN /\ exitRes'.success => ListedAs(babiesRaw', id) = {}
          /\ ~exitRes'.success => (babiesRaw' = babiesRaw /\ current' = current)
          /\ exitRes'.remote = "unavailable" <=> ~db
          /\ ~db => (exitRes'.success /\ joinRequests' = joinRequests)
          /\ (db /\ exitRes'.success) =>
               /\ \A i \in DOMAIN jobs :
                    (jobs[i].op \in {"exitFind", "exitRemove"} /\ jobs' = RemoveAt(jobs, i))
                       => mine \cap jobs[i].seen = {}
               /\ MaxJobs = 1 => mine = {}]_vars

\* the caller has left one family: the join record is gone and the baby is
\* not listed, while the other baby and another user's record are still there
C22_Witness ==
  /\ exitRes.success
  /\ exitRes.remote = "removed"
  /\ ListedAs(babiesRaw, exitRes.babyId) = {}
  /\ OwnJoins(exitRes.babyId) = {}
  /\ \E r \in joinRequests : r.babyId = exitRes.babyId /\ r.userId = "third"
  /\ \E id \in BabyIds : id # exitRes.babyId /\ RoleOf(babiesRaw, id) = "member"

(* ---- C23 ---- *)
LidsOf(ls) == { ls[k].lid : k \in DOMAIN ls }

\* C23: a step that drops a registration drops exactly one: the other
\* registrations stay, in their order, and the only watcher closed is the one
\* of the dropped registration; a registration that was dropped has no open
\* watcher, so that calling its function again changes nothing; and each
\* fan-out of the bus for a baby calls every registration of that baby that is
\* still there.
C23_UnsubscribeExactlyOne ==
  /\ [][Len(listeners') < Len(listeners) =>
          \E lid \in LidsOf(listeners) :
             /\ listeners' = SelectSeq(listeners, LAMBDA l : l.lid # lid)
             /\ Len(listeners') = Len(listeners) - 1
             /\ watchers' = watchers \ {lid}
             /\ got' = got]_vars
  /\ [](\A lid \in 1..nlid :
          lid \notin LidsOf(listeners) =>
             /\ lid \notin watchers
             /\ SelectSeq(listeners, LAMBDA l : l.lid # lid) = listeners)
  /\ [][\A l \in DOMAIN got :
          (got'[l] # got[l] /\ got'[l].last.src = "bus") =>
             \A k \in DOMAIN listeners :
                listeners[k].babyId = got'[l].last.babyId =>
                   got'[listeners[k].lid].bus[got'[l].last.mut]
                      = got[listeners[k].lid].bus[got'[l].last.mut] + 1]_vars

\* of two registrations of the same baby the first was dropped, and the second
\* was then called by the bus, and by its own watcher, for an event added since
C23_Witness ==
  /\ nlid = 2
  /\ got[1].sub = got[2].sub
  /\ LidsOf(listeners) = {2}
  /\ watchers = {2}
  /\ \E m \in Muts :
       /\ got[2].bus[m] = 1
       /\ got[1].bus[m] = 0
       /\ got[2].last.src = "push"
       /\ Len(got[2].last.snap) = 1

(* ---- C24 ---- *)
\* C24: a listEvents whose remote query failed returned the events of the
\* baby's cache that lie between the bounds, the bounds themselves included,
\* a bound of 0 (omitted) not restricting, each once and in the cache's order.
C24_FallbackInclusive ==
  (qres.via = "local" /\ qres.babyId # "") =>
     LET cache == localEvents[qres.babyId]
         In(e) == /\ (qres.startTs # 0 => qres.startTs <= e.timestamp)
                  /\ (qres.endTs # 0 => e.timestamp <= qres.endTs)
     IN /\ \A k \in DOMAIN cache :
             In(cache[k]) <=> (\E j \in DOMAIN qres.list : qres.list[j] = cache[k])
        /\ \A j \in DOMAIN qres.list : \E k \in DOMAIN cache : qres.list[j] = cache[k]
        /\ \A i, j \in DOMAIN qres.list :
             i < j => \E k, l \in DOMAIN cache :
                         k < l /\ cache[k] = qres.list[i] /\ cache[l] = qres.list[j]

\* the cache holds events at startTs - 1, startTs, endTs and endTs + 1, and the
\* fallback returned the two on the bounds
C24_Witness ==
  /\ qres.via = "local"
  /\ qres.babyId = "b1"
  /\ qres.startTs = 2 /\ qres.endTs = 3
  /\ { localEvents["b1"][k].timestamp : k \in DOMAIN localEvents["b1"] } = 1..4
  /\ { qres.list[k].timestamp : k \in DOMAIN qres.list } = {2, 3}
  /\ Len(qres.list) = 2

(* ---- C25 ---- *)
\* C25: when updateEvent succeeds and the cache of the record's baby has an
\* entry with the record's _id, that entry's type, timestamp, quantity,
\* durationMinutes and notes become the record's (a field the record does not
\* have is not set afterwards), its _id and babyId stay, and every other entry
\* of the cache stays as it was, at its position.
C25_UpdateMergesFields ==
  [][(done'.n = done.n + 1 /\ done'.op = "update" /\ done'.ok /\ done'.why = "") =>
       LET rec == done'.rec
           old == localEvents[rec.babyId]
           new == localEvents'[rec.babyId]
       IN /\ Len(new) = Len(old)
          /\ \A b \in Subjects : b # rec.babyId => localEvents'[b] = localEvents[b]
          /\ \A k \in DOMAIN old :
               IF old[k]._id = rec._id
               THEN /\ new[k].type = rec.type
                    /\ new[k].timestamp = rec.timestamp
                    /\ new[k].quantity = rec.quantity
                    /\ new[k].durationMinutes = rec.durationMinutes
                    /\ new[k].notes = rec.notes
                    /\ new[k]._id = old[k]._id
                    /\ new[k].babyId = old[k].babyId
               ELSE new[k] = old[k]]_vars

\* a feed of 120 that stood first in a cache of two was made a sleep without
\* quantity: the entry has no quantity any more, the other entry is as it was
C25_Witness ==
  /\ done.op = "update" /\ done.ok /\ done.why = ""
  /\ done.rec._id = 1
  /\ done.rec.quantity = Absent
  /\ done.rec.type = "sleep"
  /\ db
  /\ Len(localEvents["b1"]) = 2
  /\ localEvents["b1"][1] = done.rec
  /\ localEvents["b1"][2] \in EditStored

(* ---- C26 ---- *)
\* C26: a deleteEvent that succeeds with an id no entry of the baby's cache
\* has leaves the cache as it was and sets off no notification of the baby's
\* registered listeners.
C26_NotifyOnlyIfRemoved ==
  [][(/\ done'.n = done.n + 1 /\ done'.op = "delete" /\ done'.ok
      /\ \A k \in DOMAIN localEvents[done'.babyId] :
            localEvents[done'.babyId][k]._id # done'.rec._id
      /\ \E k \in DOMAIN listeners : listeners[k].babyId = done'.babyId)
     => /\ localEvents' = localEvents
        /\ ~\E j \in DOMAIN calls' : calls'[j].cont = "notify" /\ calls'[j].mut = done'.n
        /\ got' = got]_vars

(* ---- C27 ---- *)
\* C27: every count and total of aggregateDaily(A ++ B) is the sum of the
\* same field of aggregateDaily(A) and of aggregateDaily(B), for one date key;
\* a list of wake events alone adds nothing to any field.
C27_AggregateAdditive ==
  (agg.ofA # <<>> /\ agg.ofB # <<>> /\ agg.ofBoth # <<>>) =>
     LET x == agg.ofA[1]
         y == agg.ofB[1]
         z == agg.ofBoth[1]
     IN /\ z.dateKey = x.dateKey /\ z.dateKey = y.dateKey
        /\ z.feedCount = x.feedCount + y.feedCount
        /\ z.feedMl = x.feedMl + y.feedMl
        /\ z.drinkCount = x.drinkCount + y.drinkCount
        /\ z.drinkMl = x.drinkMl + y.drinkMl
        /\ z.peeCount = x.peeCount + y.peeCount
        /\ z.poopCount = x.poopCount + y.poopCount
        /\ z.sleepSessions = x.sleepSessions + y.sleepSessions
        /\ z.sleepMinutes = x.sleepMinutes + y.sleepMinutes
        /\ (\A k \in DOMAIN agg.b : agg.b[k].type = "wake") => z = x

\* a feed of 120 and a wake, then a sleep of 30 and a feed without quantity
C27_Witness ==
  /\ agg.ofA # <<>> /\ agg.ofB # <<>> /\ agg.ofBoth # <<>>
  /\ Len(agg.a) = 2 /\ Len(agg.b) = 2
  /\ agg.a[2].type = "wake"
  /\ agg.ofA[1].feedMl = 120
  /\ agg.ofB[1].sleepMinutes = 30
  /\ agg.ofB[1].feedCount = 1
  /\ agg.ofBoth[1].feedCount = 2
  /\ agg.ofBoth[1].feedMl = 120
  /\ agg.ofBoth[1].sleepSessions = 1

\* the records of a list are in date order, latest first
DatesDescend(list) ==
  \A i \in 1..(Len(list) - 1) : localeCompare(list[i].date, list[i + 1].date) >= 0

C29_QuickRoundTrip ==
  /\ (quick.res.op = "get" /\ quick.prev.op = "set" /\ quick.prev.babyId = quick.res.babyId)
       => quick.res.list = quick.prev.list
  /\ (quick.res.op = "get" /\ quick.res.defaults) => ~quick.ever[quick.res.babyId]

\* C29, the part that holds: a list that is not empty is returned as it was
\* stored, and the defaults are handed out only when nothing, or the empty
\* list, is stored.
C29_QuickRoundTripNonEmpty ==
  /\ []((quick.res.op = "get" /\ quick.prev.op = "set" /\ quick.prev.babyId = quick.res.babyId
        /\ quick.prev.list # <<>>)
       => (quick.res.list = quick.prev.list /\ ~quick.res.defaults))
  /\ [][(quick'.res.op = "get" /\ quick'.res.defaults)
          => LET b == quick'.res.babyId
             IN \/ quick'.prev = [op |-> "set", babyId |-> b, list |-> <<>>, defaults |-> FALSE]
                \/ ~quick.stored[b].has
                \/ quick.stored[b].list = <<>>]_vars

\* a list of two actions, stored in an order that is not the defaults', has
\* just been read back
C29_Witness ==
  /\ quick.res.op = "get" /\ quick.prev.op = "set" /\ quick.prev.babyId = quick.res.babyId
  /\ quick.prev.list = <<QuickAction("sleep"), QuickAction("feed")>>
  /\ quick.res.list = quick.prev.list

\* the registration lid is of a baby this user holds as member, and the
\* owner has appended a feed of 120 for that baby since it was made
OwnerAppended(lid) ==
  /\ \E i \in DOMAIN listeners : listeners[i].lid = lid
  /\ \E id \in BabyIds : HeldAsMember(id) /\ got[lid].sub = SubjectOf(id)
  /\ \E e \in cloudEvents : e.babyId = got[lid].sub /\ e.type = "feed" /\ e.quantity = 120

\* the registration has been called with a snapshot that holds such a feed:
\* the watcher called it after the feed was appended, or the call it
\* received last holds the feed
SnapshotHasFeed(lid) ==
  \/ \E e \in cloudEvents :
        /\ e.babyId = got[lid].sub /\ e.type = "feed" /\ e.quantity = 120
        /\ got[lid].push[e._id] > 0
  \/ \E k \in DOMAIN got[lid].last.snap :
        /\ got[lid].last.snap[k] \in cloudEvents
        /\ got[lid].last.snap[k].babyId = got[lid].sub
        /\ got[lid].last.snap[k].quantity = 120

FeedOnItsWay(lid) ==
  \E p \in pushes :
     /\ p.lid = lid
     /\ \E k \in DOMAIN p.docs : p.docs[k].type = "feed" /\ p.docs[k].quantity = 120

RoleListed(raw, id) ==
  LET k == FindBaby(listBabies(raw), id)
  IN IF k > 0 THEN listBabies(raw)[k].role ELSE Undefined

\* C31: the local update of upsert, called with a baby that carries no role,
\* lists a baby that was not listed as owner, and leaves the role of a baby
\* that was listed as it was: a baby held as member stays member.
C31_UpsertKeepsRole ==
  [][(upsertRes' # upsertRes /\ upsertRes'.remote \in {"pending", "unavailable"})
     => LET id == Trimmed(upsertRes'.baby.id)
        IN IF RoleListed(babiesRaw, id) = Undefined
           THEN RoleListed(babiesRaw', id) = "owner"
           ELSE RoleListed(babiesRaw', id) = RoleListed(babiesRaw, id)]_vars

\* a baby held as member has just been renamed by upsert and is still member
C31_Witness ==
  /\ upsertRes.remote \in {"pending", "unavailable"}
  /\ upsertRes.baby.name = "Bea"
  /\ \E k \in DOMAIN listBabies(babiesRaw) :
       /\ listBabies(babiesRaw)[k].id = upsertRes.baby.id
       /\ listBabies(babiesRaw)[k].name = "Bea"
       /\ listBabies(babiesRaw)[k].role = "member"

\* this step completes a remote write of an event
RemoteWritten == cloudRefl' # cloudRefl

\* C32: the local event cache changes only in the step in which the remote
\* write of an add, update or delete succeeds; a call whose remote write
\* failed, or could not be attempted for want of a database, leaves the cache
\* as it was and reports failure; queries and subscriptions never write it.
C32_CacheFollowsRemoteWrite ==
  [][/\ localEvents' # localEvents => (RemoteWritten /\ done' # done /\ done'.ok)
     /\ (done' # done /\ done'.op # "" /\ done'.why # "noid" /\ ~RemoteWritten)
          => (~done'.ok /\ localEvents' = localEvents)]_vars

\* C32, the part that holds: add and delete write the cache only when their
\* remote write succeeded and fail otherwise without touching it; queries and
\* subscriptions never write it; update alone writes it without a database.
C32_CacheFollowsRemoteWriteButUpdate ==
  [][/\ localEvents' # localEvents
          => (done' # done /\ done'.ok /\ (RemoteWritten \/ (done'.op = "update" /\ ~db)))
     /\ (done' # done /\ done'.op \in {"add", "delete"} /\ ~RemoteWritten)
          => (~done'.ok /\ localEvents' = localEvents)
     /\ (done' # done /\ done'.op = "update" /\ db /\ ~RemoteWritten /\ done'.why # "noid")
          => (~done'.ok /\ localEvents' = localEvents)]_vars

\* C33: an add that succeeds puts its record in front of what the cache of
\* the baby holds at that moment and leaves every other entry in place, so
\* that of two adds in flight together both are cached, the one whose remote
\* write completed later in front, whatever the order they were issued in;
\* no id is cached twice.
C33_OverlappingAdds ==
  /\ [][(done' # done /\ done'.op = "add" /\ done'.ok)
          => localEvents' = [localEvents EXCEPT ![done'.babyId] = <<done'.rec>> \o @]]_vars
  /\ [](\A b \in Subjects : \A i, j \in DOMAIN localEvents[b] :
          i # j => localEvents[b][i]._id # localEvents[b][j]._id)

\* two adds for one baby have completed, as they do when both are in flight
\* and the second to be issued completes first: the add of the earlier time
\* completed last and is in front, the other is behind it
C33_Witness ==
  /\ started = 2
  /\ done.op = "add" /\ done.ok /\ done.rec.timestamp = 1
  /\ \E b \in Subjects :
       /\ Len(localEvents[b]) = 2
       /\ localEvents[b][1] = done.rec
       /\ localEvents[b][1]._id = 2
       /\ localEvents[b][2]._id = 1
       /\ localEvents[b][2].timestamp = 2

(* ---- C34 ---- *)
\* C34: when the pairing falls back to the cache (no database, the query
\* failed, or it returned no sleep), the sleep it selects is the one of the
\* greatest time among the cached sleeps of the wake's subject in the 24 hours
\* before the wake, whatever the order of the cache; it selects none only
\* when the cache holds no such sleep.
C34_LocalPicksLatest ==
  [][(link' # link /\ link'.via = "local")
     => LET w == link'.wake
            C == Candidates(Range(localEvents[w.babyId]), w)
        IN IF C = {} THEN link'.sleep = NoRec
           ELSE link'.sleep \in Latest(C)]_vars

\* C34, the part that holds: the fallback selects the first sleep of the
\* window in cache order, which is the latest one whenever the cached sleeps
\* of the window stand in descending order of time.
C34_LocalPicksFirst ==
  [][(link' # link /\ link'.via = "local")
     => LET w == link'.wake
            list == localEvents[w.babyId]
            K == { k \in DOMAIN list : list[k] \in Candidates(Range(list), w) }
        IN IF K = {} THEN link'.sleep = NoRec
           ELSE /\ \E k \in K : link'.sleep = list[k] /\ \A j \in K : k <= j
                /\ (\A i, j \in K : i < j => list[i].timestamp >= list[j].timestamp)
                     => link'.sleep \in Latest(Candidates(Range(list), w))]_vars

(* ---- C35 ---- *)
\* the function watchEvents returned for registration l has been called
Unsubscribed(l) ==
  /\ l \in 1..nlid
  /\ \A i \in DOMAIN listeners : listeners[i].lid # l

\* C35: once the function that watchEvents returned has been called, the
\* callback of that registration is not invoked again: not by the initial
\* load if it is still in flight, not by a notification whose query was
\* started before, not by a later mutation, not by the watcher.
C35_SilentAfterUnsubscribe ==
  [][\A l \in 1..MaxWatch : Unsubscribed(l) => got'[l] = got[l]]_vars

\* C35, the part that holds: after the function was called the callback is
\* invoked by nothing but the initial load of its own watchEvents call, and
\* by that at most once.
C35_OnlyInitialLoadAfterUnsubscribe ==
  [][\A l \in 1..MaxWatch :
       (Unsubscribed(l) /\ got'[l] # got[l])
         => /\ got'[l].last.src = "init"
            /\ got'[l].bus = got[l].bus
            /\ got'[l].push = got[l].push
            /\ got[l].last.src # "init"
            /\ \E i \in DOMAIN calls : calls[i].cont = "init" /\ calls[i].lid = l]_vars

(* ---- one device: its user creates babies, removes them from the list and
        synchronises; nobody else writes ---- *)
NextOwned ==
  \/ \E baby \in BabyInputs : UpsertBaby(baby)
  \/ \E i \in DOMAIN jobs : UpsertBabyThen(i)
  \/ \E i \in DOMAIN jobs : UpsertBabyCatch(i)
  \/ \E id \in BabyIds : DeleteBabyById(id)
  \/ SyncBabies
  \/ \E i \in DOMAIN jobs : SyncOwnedThen(i)
  \/ \E i \in DOMAIN jobs : SyncOwnedCatch(i)

SpecOwned == InitUpsert /\ [][NextOwned]_vars

InList(raw, id) == FindBaby(listBabies(raw), id) > 0

(* ---- C36 ---- *)
\* C36: a baby that upsertBaby created while its remote set failed (it
\* returned false, the baby is in the local list as owner and has no remote
\* document) is still in the list after a later syncBabies whose query for the
\* owned babies was answered.
C36_FailedCreateSurvivesSync ==
  (/\ upsertRes.remote = "failed"
   /\ cloudBabies[upsertRes.baby.id] = NoDoc
   /\ syncLog.step = "owned"
   /\ upsertRes.baby.id \in syncLog.owners)
    => InList(babiesRaw, upsertRes.baby.id)

\* C36, the part that holds: the baby stays in the list as long as no
\* syncBabies has had its query for the owned babies answered, and is removed
\* by the one that has.
C36_FailedCreateGoneAfterSync ==
  /\ [][(upsertRes.remote = "failed" /\ cloudBabies[upsertRes.baby.id] = NoDoc
         /\ InList(babiesRaw, upsertRes.baby.id) /\ ~InList(babiesRaw', upsertRes.baby.id))
        => (syncLog'.step = "owned" \/ upsertRes' # upsertRes
            \/ \E id \in BabyIds : DeleteBabyById(id))]_vars
  /\ []((/\ upsertRes.remote = "failed"
         /\ cloudBabies[upsertRes.baby.id] = NoDoc
         /\ syncLog.step = "owned"
         /\ upsertRes.baby.id \in syncLog.owners)
        => ~InList(babiesRaw, upsertRes.baby.id))

(* ---- C37 ---- *)
\* on this device alone a baby that is not in the list while its document
\* exists was removed from the list with deleteBabyById: upsertBaby writes the
\* list before the document, and syncBabies removes only babies whose
\* document is missing
RemovedLocally(id) == ~InList(babiesRaw, id) /\ cloudBabies[id] # NoDoc

\* C37: a baby its owner removed from the local list with deleteBabyById
\* stays out of the list through every later syncBabies; syncBabies adds no
\* baby the user removed.
C37_RemovedStaysRemoved ==
  [][\A id \in BabyIds :
       (RemovedLocally(id) /\ syncLog' # syncLog /\ syncLog'.step \in {"owned", "ownedFailed"})
         => ~InList(babiesRaw', id)]_vars

\* C37, the part that holds: the removal lasts until the next syncBabies whose
\* query for the owned babies is answered; that one puts every baby the user
\* removed back (its document is the user's and not deleted), a query that
\* fails puts none back.
C37_RemovedUntilSync ==
  [][\A id \in BabyIds :
       RemovedLocally(id)
         => /\ InList(babiesRaw', id)
                 => (syncLog'.step = "owned" \/ \E baby \in BabyInputs : UpsertBaby(baby))
            /\ (syncLog' # syncLog /\ syncLog'.step = "owned") => InList(babiesRaw', id)
            /\ (syncLog' # syncLog /\ syncLog'.step = "ownedFailed") => ~InList(babiesRaw', id)]_vars

(* ---- checkMyJoinStatus, and the profile page as a member shows it ---- *)
\* join_requests.where({ status: 'approved' }).get(): the records the caller may read
ApprovedRecords ==
  { r \in joinRequests : r.status = "approved" /\ (joinReadAll \/ r.userId = "me") }

\* checkMyJoinStatus() with a database: the approved records are asked for
CheckMyJoinStatus ==
  /\ db
  /\ Len(jobs) < MaxJobs
  /\ jobs' = Append(jobs, Job("checkJoin", <<>>, NoBaby, <<>>))
  /\ UNCHANGED <<evVars, regVars, cloudBabies, syncLog, joinVars>>

\* res.data is empty: false
CheckJoinNone(i) ==
  /\ jobs[i].op = "checkJoin"
  /\ ApprovedRecords = {}
  /\ jobs' = RemoveAt(jobs, i)
  /\ UNCHANGED <<evVars, regVars, cloudBabies, syncLog, joinVars>>

\* res.data holds records: the loop starts, in the order the remote gave them
CheckJoinFound(i) ==
  /\ jobs[i].op = "checkJoin"
  /\ ApprovedRecords # {}
  /\ \E recs \in Orders(ApprovedRecords) :
       jobs' = [jobs EXCEPT ![i] = [@ EXCEPT !.op = "checkBaby", !.snap = recs]]
  /\ UNCHANGED <<evVars, regVars, cloudBabies, syncLog, joinVars>>

\* one turn of the loop: the document of the record's baby arrived and is
\* saved with updateLocalBaby; after the last record the call returns
CheckJoinBaby(i) ==
  /\ jobs[i].op = "checkBaby"
  /\ cloudBabies[Head(jobs[i].snap).babyId] # NoDoc
  /\ babiesRaw' = updateLocalBaby(babiesRaw, cloudBabies[Head(jobs[i].snap).babyId].data)
  /\ jobs' = IF Len(jobs[i].snap) = 1 THEN RemoveAt(jobs, i)
             ELSE [jobs EXCEPT ![i] = [@ EXCEPT !.snap = Tail(jobs[i].snap)]]
  /\ syncLog' = NoSync
  /\ UNCHANGED <<evVars, joinVars, current, listed, cloudBabies>>

\* the query or a get failed: catch (e) {}, false
CheckJoinCatch(i) ==
  /\ jobs[i].op \in {"checkJoin", "checkBaby"}
  /\ jobs' = RemoveAt(jobs, i)
  /\ UNCHANGED <<evVars, regVars, cloudBabies, syncLog, joinVars>>

\* a user joins babies of another user, who removes them later; the profile
\* page synchronises and checks the join status whenever it is shown
InitShow == InitProfiles /\ db

NextShow ==
  \/ \E id \in BabyIds : cloudBabies[id] = NoDoc /\ OtherUpsertBaby(Baby(id, "Bo", Undefined))
  \/ \E id \in BabyIds : OtherCreateInvitation(id, CodeOf(id))
  \/ \E id \in BabyIds : InList(babiesRaw, id) /\ OtherSoftDeleteBaby(id)
  \/ \E code \in Codes : ConfirmJoinFamily(code)
  \/ \E i \in DOMAIN jobs : ConfirmJoinInvalid(i)
  \/ \E i \in DOMAIN jobs : ConfirmJoinFound(i)
  \/ \E i \in DOMAIN jobs : ConfirmJoinBaby(i)
  \/ \E i \in DOMAIN jobs : ConfirmJoinAlready(i)
  \/ \E i \in DOMAIN jobs : ConfirmJoinNew(i)
  \/ \E i \in DOMAIN jobs : ConfirmJoinThen(i)
  \/ \E i \in DOMAIN jobs : ConfirmJoinCatch(i)
  \/ SyncBabies
  \/ \E i \in DOMAIN jobs : SyncOwnedThen(i)
  \/ \E i \in DOMAIN jobs : SyncOwnedCatch(i)
  \/ \E i \in DOMAIN jobs : SyncMemberThen(i)
  \/ \E i \in DOMAIN jobs : SyncMemberCatch(i)
  \/ CheckMyJoinStatus
  \/ \E i \in DOMAIN jobs : CheckJoinNone(i)
  \/ \E i \in DOMAIN jobs : CheckJoinFound(i)
  \/ \E i \in DOMAIN jobs : CheckJoinBaby(i)
  \/ \E i \in DOMAIN jobs : CheckJoinCatch(i)

SpecShow == InitShow /\ [][NextShow]_vars

(* ---- C38 ---- *)
SoftDeleted(id) == cloudBabies[id] # NoDoc /\ cloudBabies[id].isDeleted

\* C38: once the owner has soft-deleted a baby and syncBabies has removed it
\* from the member's list, checkMyJoinStatus does not put it back: the member
\* who runs syncBabies and then checkMyJoinStatus ends with the baby out of
\* the list.
C38_DeletedStaysOut ==
  [][\A id \in BabyIds :
       (/\ SoftDeleted(id)
        /\ ~InList(babiesRaw, id)
        /\ \E i \in DOMAIN jobs : jobs[i].op = "checkBaby")
         => ~InList(babiesRaw', id)]_vars

\* C38, the part that holds: the member pass of syncBabies takes a
\* soft-deleted baby out of the list whenever it gets its document, and
\* syncBabies never puts one in; a soft-deleted baby enters the list only
\* through checkMyJoinStatus, or through a confirmJoinFamily that had fetched
\* the document already.
C38_OnlyCheckPutsBack ==
  [][\A id \in BabyIds :
       SoftDeleted(id) =>
         /\ (syncLog' # syncLog /\ syncLog'.step = "member" /\ syncLog'.id = id)
               => ~InList(babiesRaw', id)
         /\ (~InList(babiesRaw, id) /\ InList(babiesRaw', id))
               => \E i \in DOMAIN jobs : jobs[i].op \in {"checkBaby", "findJoin", "addJoin"}]_vars

(* ---- confirmJoinFamily called again while a call is in flight ---- *)
MaxRedeems == 2   \* confirmJoinFamily calls in flight together

\* a second call (a second tap, or the user's other device) starts while the
\* remote calls of the first have not all returned
ConfirmJoinFamilyOverlapping(code) ==
  /\ db
  /\ jobs # <<>>
  /\ Len(jobs) < MaxRedeems
  /\ jobs' = Append(jobs, [Job("findInvite", <<>>, NoBaby, <<>>) EXCEPT
                             !.inv = [NoInv EXCEPT !.code = code], !.at = now])
  /\ UNCHANGED <<evVars, regVars, cloudBabies, syncLog, joinVars>>

InitRedeem == InitProfiles /\ db

NextRedeem ==
  \/ \E id \in BabyIds : cloudBabies[id] = NoDoc /\ OtherUpsertBaby(Baby(id, "Bo", Undefined))
  \/ \E id \in BabyIds : OtherCreateInvitation(id, CodeOf(id))
  \/ \E code \in Codes : ConfirmJoinFamily(code)
  \/ \E code \in Codes : ConfirmJoinFamilyOverlapping(code)
  \/ \E i \in DOMAIN jobs : ConfirmJoinInvalid(i)
  \/ \E i \in DOMAIN jobs : ConfirmJoinFound(i)
  \/ \E i \in DOMAIN jobs : ConfirmJoinBaby(i)
  \/ \E i \in DOMAIN jobs : ConfirmJoinAlready(i)
  \/ \E i \in DOMAIN jobs : ConfirmJoinNew(i)
  \/ \E i \in DOMAIN jobs : ConfirmJoinThen(i)
  \/ \E i \in DOMAIN jobs : ConfirmJoinCatch(i)

SpecRedeem == InitRedeem /\ [][NextRedeem]_vars

(* ---- C39 ---- *)
\* C39: join_requests holds at most one record per baby and user in every
\* reachable state, also when two confirmJoinFamily calls of one user for one
\* baby overlap so that both look for an existing record before either adds.
C39_OneRecordPerUser ==
  \A r, q \in joinRequests : (r.babyId = q.babyId /\ r.userId = q.userId) => r = q

(* ---- C40 ---- *)
Redeemable(inv, t) == inv.status = "active" /\ inv.expiresAt > t

\* C40: createInvitation never stores a code that another invitation which
\* is still active and unexpired carries, so that a code that can be redeemed
\* names one baby and confirmJoinFamily joins the baby the code was issued for.
C40_FreshCode ==
  [][\A inv \in invitations' \ invitations :
       ~\E old \in invitations : old.code = inv.code /\ Redeemable(old, now)]_vars

\* C40, the part that holds: a successful confirmJoinFamily joins a baby that
\* an invitation with the code it was given names, one that was active and
\* unexpired when the call was made; which one, when several carry the code,
\* is the remote's choice.
C40_JoinsSomeBabyOfTheCode ==
  (joinRes.success /\ joinRes.checked)
    => \E inv \in joinRes.seen :
         /\ inv.code = joinRes.code
         /\ inv.babyId = joinRes.babyId
         /\ Redeemable(inv, joinRes.at)
====
